---- MODULE Spec2Model ----
(***************************************************************************)
(* A model of the SSH wire primitives (picky/src/ssh/mod.rs), the RSA      *)
(* certificate codec and the certificate builder                           *)
(* (picky/src/ssh/certificate.rs).                                         *)
(*                                                                         *)
(* Bytes are integers 0..255, byte strings are sequences of bytes, Rust    *)
(* Strings are sequences of Unicode scalar values (so that the UTF-8       *)
(* conversion is a real conversion).  A reader (impl Read over a Cursor or *)
(* a slice) is the sequence of bytes not yet read.                         *)
(***************************************************************************)
EXTENDS Integers, Sequences, FiniteSets, TLC

VARIABLES
    \* ---- wire primitives: one Cursor and the last call made on it
    stream,     \* bytes of the Cursor that have not been read yet
    origin,     \* how the Cursor's buffer was filled: [op, arg]
    nread,      \* number of decode calls made on the buffer since it was filled
    last,       \* name of the last operation
    before,     \* the unread bytes when the last operation started
    res,        \* result of the last decode: [status, value]
    \* ---- certificate builder
    inner,      \* SshCertificateBuilderInner
    now,        \* wall clock, seconds since the epoch
    built,      \* result of build(): [status, err, cert, at]
    \* ---- certificate codec
    certIn,     \* the textual certificate handed to SshCertificate::decode
    certRes,    \* result of SshCertificate::decode: [status, err, cert]
    certOut     \* bytes written by SshCertificate::encode ([status, bytes])

wireVars == <<stream, origin, nread, last, before, res>>
builderVars == <<inner, now, built>>
certVars == <<certIn, certRes, certOut>>
vars == <<stream, origin, nread, last, before, res, inner, now, built,
          certIn, certRes, certOut>>

(***************************************************************************)
(* Bounds of the model.                                                    *)
(***************************************************************************)
MaxLen == 2        \* longest payload / string drawn as an input
MaxReads == 2      \* decode calls made on one buffer
MaxTime == 2       \* timestamps and clock readings are 0..MaxTime

(***************************************************************************)
(* Helpers on byte strings.                                                *)
(***************************************************************************)
SeqsUpTo(S, n) == UNION { [1..k -> S] : k \in 0..n }

Drop(s, k) == SubSeq(s, k + 1, Len(s))

Take(s, k) == SubSeq(s, 1, k)

\* the value of v handed to F: v is evaluated once, however often F uses it
Bind(v, F(_)) == CHOOSE r \in { F(x) : x \in {v} } : TRUE

\* write_u32 with the bytes in little-endian order
WriteU32MutLE(n) ==
    <<n % 256, (n \div 256) % 256, (n \div 65536) % 256, (n \div 16777216) % 256>>

\* WriteBytesExt::write_u32::<BigEndian>(n as u32).  Every length of the
\* model is below 2^31, so the cast to u32 changes nothing.
WriteU32(n) ==
    <<(n \div 16777216) % 256, (n \div 65536) % 256, (n \div 256) % 256, n % 256>>

\* ReadBytesExt::read_u32::<BigEndian>() on the unread bytes s:
\* an UnexpectedEof Io error when fewer than 4 bytes are left.  A value at
\* or above 2^24 is larger than every buffer of the model and is kept as
\* exactly 2^24 (the model's integers stop at 2^31 - 1).
ReadU32(s) ==
    IF Len(s) < 4
    THEN [status |-> "Io", value |-> 0, rest |-> <<>>]
    ELSE [status |-> "Ok",
          value  |-> IF s[1] # 0 THEN 16777216 ELSE s[2] * 65536 + s[3] * 256 + s[4],
          rest   |-> Drop(s, 4)]

\* let size = read_u32()? as usize; let mut buffer = vec![0; size];
\* stream.read_exact(&mut buffer)?  -- the frame shared by the three primitives
ReadFrame(s) ==
    Bind(ReadU32(s), LAMBDA n :
        IF n.status # "Ok"
        THEN [status |-> "Io", value |-> <<>>, rest |-> <<>>]
        ELSE IF Len(n.rest) < n.value
        THEN [status |-> "Io", value |-> <<>>, rest |-> <<>>]
        ELSE [status |-> "Ok", value |-> Take(n.rest, n.value),
              rest |-> Drop(n.rest, n.value)])

(***************************************************************************)
(* ByteArray                                                               *)
(***************************************************************************)
ByteArrayDecode(s) == ReadFrame(s)

\* ByteArray::encode with a little-endian length prefix
ByteArrayEncodeMutLE(b) == WriteU32MutLE(Len(b)) \o b

ByteArrayEncode(b) == Bind(b, LAMBDA v : WriteU32(Len(v)) \o v)

(***************************************************************************)
(* Mpint                                                                   *)
(***************************************************************************)
\* Mpint::decode keeping the sign byte (the stripping forgotten)
MpintDecodeMutKeep(s) == ReadFrame(s)

\* Mpint::decode.  buffer[0] on an empty buffer is an index out of bounds:
\* the call panics instead of returning.
MpintDecode(s) ==
    Bind(ReadFrame(s), LAMBDA f :
        IF f.status # "Ok" THEN f
        ELSE IF Len(f.value) = 0
        THEN [status |-> "Panic", value |-> <<>>, rest |-> f.rest]
        ELSE IF f.value[1] = 0
        THEN [status |-> "Ok", value |-> Drop(f.value, 1), rest |-> f.rest]
        ELSE f)

\* Mpint::encode without the sign byte
MpintEncodeMutNoPad(v) == WriteU32(Len(v)) \o v

\* Mpint::encode with the sign byte before every non-empty payload
MpintEncodeMutAlwaysPad(v) ==
    IF Len(v) > 0 THEN WriteU32(Len(v) + 1) \o <<0>> \o v ELSE WriteU32(Len(v)) \o v

\* self.0[0] & 0b10000000 != 0
HighBitSet(byte) == byte >= 128

MpintEncode(v) ==
    Bind(v, LAMBDA p :
        IF Len(p) > 0 /\ HighBitSet(p[1])
        THEN WriteU32(Len(p) + 1) \o <<0>> \o p
        ELSE WriteU32(Len(p)) \o p)

(***************************************************************************)
(* SshString.  A String is a sequence of Unicode scalar values;            *)
(* String::as_bytes is its UTF-8 encoding and String::from_utf8_lossy      *)
(* decodes UTF-8, replacing every ill-formed subsequence by U+FFFD.        *)
(***************************************************************************)
\* UTF-8 encoding of one scalar value (char::encode_utf8)
EncodeUtf8(c) ==
    IF c < 128 THEN <<c>>
    ELSE IF c < 2048 THEN <<192 + (c \div 64), 128 + (c % 64)>>
    ELSE IF c < 65536
    THEN <<224 + (c \div 4096), 128 + ((c \div 64) % 64), 128 + (c % 64)>>
    ELSE <<240 + (c \div 262144), 128 + ((c \div 4096) % 64),
           128 + ((c \div 64) % 64), 128 + (c % 64)>>

RECURSIVE AsBytesFrom(_, _)
\* the UTF-8 encoding of the characters of str from the i-th on
AsBytesFrom(str, i) ==
    IF i > Len(str) THEN <<>> ELSE EncodeUtf8(str[i]) \o AsBytesFrom(str, i + 1)

\* String::as_bytes
AsBytes(str) == Bind(str, LAMBDA v : AsBytesFrom(v, 1))

SafeGet(b, i) == IF i <= Len(b) THEN b[i] ELSE 0

IsContinuation(x) == x >= 128 /\ x <= 191

\* core::str::utf8_char_width
Utf8CharWidth(x) ==
    IF x < 128 THEN 1
    ELSE IF x >= 194 /\ x <= 223 THEN 2
    ELSE IF x >= 224 /\ x <= 239 THEN 3
    ELSE IF x >= 240 /\ x <= 244 THEN 4
    ELSE 0

\* the (first byte, second byte) pairs that open a well-formed 3-byte sequence
SecondOf3(x, y) ==
    \/ x = 224 /\ y >= 160 /\ y <= 191
    \/ x >= 225 /\ x <= 236 /\ IsContinuation(y)
    \/ x = 237 /\ y >= 128 /\ y <= 159
    \/ x >= 238 /\ x <= 239 /\ IsContinuation(y)

\* the (first byte, second byte) pairs that open a well-formed 4-byte sequence
SecondOf4(x, y) ==
    \/ x = 240 /\ y >= 144 /\ y <= 191
    \/ x >= 241 /\ x <= 243 /\ IsContinuation(y)
    \/ x = 244 /\ y >= 128 /\ y <= 143

RECURSIVE Utf8LossyFrom(_, _)
\* the lossy decoding of the bytes of b from the i-th on
Utf8LossyFrom(b, i) ==
    IF i > Len(b) THEN <<>>
    ELSE
    LET x == b[i]
        w == Utf8CharWidth(x)
        y == SafeGet(b, i + 1)
        z == SafeGet(b, i + 2)
        u == SafeGet(b, i + 3)
        bad(k) == <<65533>> \o Utf8LossyFrom(b, i + k)
    IN  IF w = 1 THEN <<x>> \o Utf8LossyFrom(b, i + 1)
        ELSE IF w = 2
        THEN IF IsContinuation(y)
             THEN <<(x - 192) * 64 + (y - 128)>> \o Utf8LossyFrom(b, i + 2)
             ELSE bad(1)
        ELSE IF w = 3
        THEN IF ~SecondOf3(x, y) THEN bad(1)
             ELSE IF ~IsContinuation(z) THEN bad(2)
             ELSE <<(x - 224) * 4096 + (y - 128) * 64 + (z - 128)>>
                  \o Utf8LossyFrom(b, i + 3)
        ELSE IF w = 4
        THEN IF ~SecondOf4(x, y) THEN bad(1)
             ELSE IF ~IsContinuation(z) THEN bad(2)
             ELSE IF ~IsContinuation(u) THEN bad(3)
             ELSE <<(x - 240) * 262144 + (y - 128) * 4096 + (z - 128) * 64 + (u - 128)>>
                  \o Utf8LossyFrom(b, i + 4)
        ELSE bad(1)

\* String::from_utf8_lossy(&buffer).to_string()
FromUtf8Lossy(b) == Bind(b, LAMBDA v : Utf8LossyFrom(v, 1))

SshStringDecode(s) ==
    Bind(ReadFrame(s), LAMBDA f :
        IF f.status # "Ok" THEN f
        ELSE [status |-> "Ok", value |-> FromUtf8Lossy(f.value), rest |-> f.rest])

\* SshString::encode with the character count as the length prefix
SshStringEncodeMutChars(str) == WriteU32(Len(str)) \o AsBytes(str)

SshStringEncode(str) == Bind(AsBytes(str), LAMBDA v : WriteU32(Len(v)) \o v)

(***************************************************************************)
(* Inputs of the wire primitives.                                          *)
(***************************************************************************)
\* bytes that exercise the sign rule: zero, small, 0x7f, 0x80, 0xff
ByteVals == {0, 1, 127, 128, 255}

Payloads == SeqsUpTo(ByteVals, MaxLen)

\* the payloads of the unit tests mpint_decoding / mpint_encoding
TestPayload8 == <<9, 163, 120, 249, 178, 227, 50, 167>>

TestPayloads == {TestPayload8, <<128>>, <<0, 128>>, <<237, 204>>}

\* scalar values of 1, 2, 3 and 4 UTF-8 bytes, and U+FFFD itself
Chars == {65, 233, 8364, 128512, 65533}

Strings == SeqsUpTo(Chars, MaxLen)

\* Raw buffers: a length prefix k followed by a payload p, whether or not
\* k = Len(p) (a longer k is a truncated frame, a shorter one leaves bytes
\* behind), and buffers cut inside the length prefix.
RawBuffers ==
    { WriteU32(k) \o p : k \in 0..(MaxLen + 1), p \in Payloads }
      \cup { WriteU32(Len(p)) \o p : p \in TestPayloads }
      \cup { Take(<<0, 0, 0, 1>>, k) : k \in 0..3 }

(***************************************************************************)
(* The wire specification: one Cursor is filled, by an encode call or from *)
(* raw bytes, and decode calls then read from it.                          *)
(***************************************************************************)
NoRes == [status |-> "None", value |-> <<>>]

WireIdle ==
    /\ stream = <<>>
    /\ origin = [op |-> "None", arg |-> <<>>]
    /\ nread = 0
    /\ last = "None"
    /\ before = <<>>
    /\ res = NoRes

\* Cursor::new(raw)
CursorNew(raw) ==
    /\ UNCHANGED <<builderVars, certVars>>
    /\ stream' = raw
    /\ origin' = [op |-> "CursorNew", arg |-> raw]
    /\ nread' = 0
    /\ last' = "CursorNew"
    /\ before' = <<>>
    /\ res' = NoRes

\* value.encode(&mut Cursor::new(Vec::new()))
Encoded(op, arg, bytes) ==
    /\ UNCHANGED <<builderVars, certVars>>
    /\ stream' = bytes
    /\ origin' = [op |-> op, arg |-> arg]
    /\ nread' = 0
    /\ last' = op
    /\ before' = <<>>
    /\ res' = NoRes

\* T::decode(&mut cursor): r is the pure result on the unread bytes.  After
\* an Io error the position of the Cursor is unspecified (read_exact); any
\* suffix of the unread bytes may be left.
Decoded(op, r) ==
    /\ UNCHANGED <<builderVars, certVars>>
    /\ last' = op
    /\ before' = stream
    /\ nread' = nread + 1
    /\ origin' = origin
    /\ res' = [status |-> r.status, value |-> r.value]
    /\ IF r.status = "Io"
       THEN \E k \in 0..Len(stream) : stream' = Drop(stream, k)
       ELSE stream' = r.rest

\* one Cursor per run: it is filled once
Unfilled == last = "None"

\* a decode call needs the Cursor; the model stops after MaxReads calls
Readable == last # "None" /\ nread < MaxReads

DoCursorNew == \E raw \in RawBuffers :
    /\ Unfilled
    /\ CursorNew(raw)

DoMpintEncode == \E v \in Payloads \cup TestPayloads :
    /\ Unfilled
    /\ Encoded("MpintEncode", v, MpintEncode(v))

DoMpintDecode ==
    /\ Readable
    /\ Decoded("MpintDecode", MpintDecode(stream))

DoByteArrayEncode == \E b \in Payloads \cup TestPayloads :
    /\ Unfilled
    /\ Encoded("ByteArrayEncode", b, ByteArrayEncode(b))

DoByteArrayDecode ==
    /\ Readable
    /\ Decoded("ByteArrayDecode", ByteArrayDecode(stream))

DoSshStringEncode == \E str \in Strings :
    /\ Unfilled
    /\ Encoded("SshStringEncode", str, SshStringEncode(str))

DoSshStringDecode ==
    /\ Readable
    /\ Decoded("SshStringDecode", SshStringDecode(stream))

(***************************************************************************)
(* u64 scalars (serial, timestamps).  A u64 is kept as four 16-bit limbs,  *)
(* most significant first.                                                 *)
(***************************************************************************)
U64(n) == <<0, 0, 0, n>>

\* a < b on u64 values
U64Less(a, b) ==
    \E i \in 1..4 : a[i] < b[i] /\ \A j \in 1..(i - 1) : a[j] = b[j]

U64LessEq(a, b) == a = b \/ U64Less(a, b)

(***************************************************************************)
(* SshCertificateBuilder                                                   *)
(***************************************************************************)
None == <<>>

Some(x) == <<x>>

IsSome(o) == Len(o) = 1

Unwrap(o) == o[1]

NoCert == [status |-> "None"]

\* SshCertificateBuilder::init()
BuilderInit ==
    [key_type |-> "SshRsaV01", public_key |-> None, serial |-> None,
     cert_type |-> None, key_id |-> None, valid_principals |-> <<>>,
     valid_after |-> None, valid_before |-> None, critical_options |-> <<>>,
     extensions |-> <<>>, signature_key |-> None, signature |-> None,
     comment |-> <<>>]

\* RSA public keys (e, n) as the big-endian bytes of the two numbers
SubjectKey == [e |-> <<1, 0, 1>>, n |-> <<143, 1>>]

IssuerKey == [e |-> <<3>>, n |-> <<123, 5>>]

\* inputs of the setters
Times == { U64(k) : k \in 0..MaxTime }

Serials == { U64(7) }

CertTypes == {"Client", "Host"}

KeyIds == { <<73, 68>> }

PrincipalLists == { << <<97>>, <<98, 99>> >> }

CriticalOptionLists == { << [option_type |-> "ForceCommand", data |-> <<108, 115>>] >> }

ExtensionLists == { << [extension_type |-> "PermitPty", data |-> <<>>] >> }

Signatures == { <<222, 173>> }

\* rnd.gen::<u8>() 32 times: two of the 2^256 outcomes
Nonces == { [i \in 1..32 |-> 0], [i \in 1..32 |-> (7 * i) % 256] }

BuildErr(e, t) == [status |-> "Err", err |-> e, cert |-> None, at |-> t]

\* the SshCertificate build() returns when nothing is missing
BuiltCert(inn, t, nonce) ==
    [status |-> "Ok", err |-> "None", at |-> t,
     cert |-> Some(
       [key_type |-> inn.key_type, public_key |-> Unwrap(inn.public_key),
        nonce |-> nonce, serial |-> Unwrap(inn.serial),
        cert_type |-> Unwrap(inn.cert_type), key_id |-> Unwrap(inn.key_id),
        valid_principals |-> inn.valid_principals,
        valid_after |-> Unwrap(inn.valid_after),
        valid_before |-> Unwrap(inn.valid_before),
        critical_options |-> inn.critical_options,
        extensions |-> inn.extensions,
        signature_key |-> Unwrap(inn.signature_key),
        signature |-> Unwrap(inn.signature), comment |-> inn.comment])]

\* the ok_or(Missing...)? of the struct expression, in field order
MissingField(inn) ==
    IF ~IsSome(inn.public_key) THEN "MissingPublicKey"
    ELSE IF ~IsSome(inn.serial) THEN "MissingSerial"
    ELSE IF ~IsSome(inn.cert_type) THEN "MissingCertificateType"
    ELSE IF ~IsSome(inn.key_id) THEN "MissingKeyId"
    ELSE IF ~IsSome(inn.signature_key) THEN "MissingSignatureKey"
    ELSE IF ~IsSome(inn.signature) THEN "MissingSignature"
    ELSE "None"

\* valid_after > cur_date || cur_date >= valid_before
OutsideWindow(inn, t) ==
    \/ U64Less(U64(t), Unwrap(inn.valid_after))
    \/ U64LessEq(Unwrap(inn.valid_before), U64(t))

\* build() checking the required fields before the validity window
BuildMutFieldsFirst(inn, t, nonce) ==
    IF MissingField(inn) # "None" THEN BuildErr(MissingField(inn), t)
    ELSE IF ~IsSome(inn.valid_after) THEN BuildErr("InvalidTime", t)
    ELSE IF ~IsSome(inn.valid_before) THEN BuildErr("InvalidTime", t)
    ELSE IF OutsideWindow(inn, t) THEN BuildErr("InvalidTime", t)
    ELSE BuiltCert(inn, t, nonce)

\* build() with serial.unwrap_or(0) instead of serial.ok_or(MissingSerial)?
BuildMutDefaultSerial(inn, t, nonce) ==
    LET d == IF IsSome(inn.serial) THEN inn ELSE [inn EXCEPT !.serial = Some(U64(0))]
    IN  IF ~IsSome(d.valid_after) THEN BuildErr("InvalidTime", t)
        ELSE IF ~IsSome(d.valid_before) THEN BuildErr("InvalidTime", t)
        ELSE IF OutsideWindow(d, t) THEN BuildErr("InvalidTime", t)
        ELSE IF MissingField(d) # "None" THEN BuildErr(MissingField(d), t)
        ELSE BuiltCert(d, t, nonce)

\* SshCertificateBuilder::build() on the fields inn, with the clock reading
\* t and the 32 random bytes nonce
Build(inn, t, nonce) ==
    IF ~IsSome(inn.valid_after) THEN BuildErr("InvalidTime", t)
    ELSE IF ~IsSome(inn.valid_before) THEN BuildErr("InvalidTime", t)
    ELSE IF OutsideWindow(inn, t) THEN BuildErr("InvalidTime", t)
    ELSE IF MissingField(inn) # "None" THEN BuildErr(MissingField(inn), t)
    ELSE BuiltCert(inn, t, nonce)

\* a setter that also empties the principals
SetMutClearsPrincipals(field, value) ==
    /\ inner' = [inner EXCEPT !.valid_principals = <<>>, ![field] = value]
    /\ UNCHANGED <<now, built, wireVars, certVars>>

\* a setter: self.inner.<field> = value
Set(field, value) ==
    /\ inner' = [inner EXCEPT ![field] = value]
    /\ UNCHANGED <<now, built, wireVars, certVars>>

\* build(self) consumes the builder: no call follows it
Usable == built.status = "None"

SetKeyType == Usable /\ Set("key_type", "SshRsaV01")

SetKey == Usable /\ Set("public_key", Some(SubjectKey))

SetSerial == \E n \in Serials : Usable /\ Set("serial", Some(n))

SetCertType == \E c \in CertTypes : Usable /\ Set("cert_type", Some(c))

SetKeyId == \E k \in KeyIds : Usable /\ Set("key_id", Some(k))

SetPrincipals == \E ps \in PrincipalLists : Usable /\ Set("valid_principals", ps)

SetValidBefore == \E tm \in Times : Usable /\ Set("valid_before", Some(tm))

SetValidAfter == \E tm \in Times : Usable /\ Set("valid_after", Some(tm))

SetCriticalOptions == \E os \in CriticalOptionLists :
    Usable /\ Set("critical_options", os)

SetExtensions == \E es \in ExtensionLists : Usable /\ Set("extensions", es)

SetSignatureKey == Usable /\ Set("signature_key", Some(IssuerKey))

SetSignature == \E sg \in Signatures : Usable /\ Set("signature", Some(sg))

\* build(self): the clock is read and the nonce drawn inside the call; inner
\* keeps the fields that were handed over
DoBuild == \E t \in 0..MaxTime, nonce \in Nonces :
    /\ Usable
    /\ built' = Build(inner, t, nonce)
    /\ now' = t
    /\ UNCHANGED <<inner, wireVars, certVars>>

BuilderIdle ==
    /\ inner = BuilderInit
    /\ now = 0
    /\ built = NoCert

CertIdle ==
    /\ certIn = <<>>
    /\ certRes = NoCert
    /\ certOut = NoCert

InitBuilder == WireIdle /\ BuilderIdle /\ CertIdle

NextBuilder ==
    \/ SetKeyType
    \/ SetKey
    \/ SetSerial
    \/ SetCertType
    \/ SetKeyId
    \/ SetPrincipals
    \/ SetValidBefore
    \/ SetValidAfter
    \/ SetCriticalOptions
    \/ SetExtensions
    \/ SetSignatureKey
    \/ SetSignature
    \/ DoBuild

SpecBuilder == InitBuilder /\ [][NextBuilder]_vars

InitWire == WireIdle /\ BuilderIdle /\ CertIdle

NextWire ==
    \/ DoCursorNew
    \/ DoMpintEncode
    \/ DoMpintDecode
    \/ DoByteArrayEncode
    \/ DoByteArrayDecode
    \/ DoSshStringEncode
    \/ DoSshStringDecode

SpecWire == InitWire /\ [][NextWire]_vars

(***************************************************************************)
(* Properties of the wire primitives (checked under SpecWire).             *)
(***************************************************************************)
Ok(v) == [status |-> "Ok", value |-> v]

\* the decode just made was the first read of a buffer written by `enc`
RoundTrip(enc, dec) == last = dec /\ origin.op = enc /\ nread = 1

NoLeadingZero(v) == Len(v) = 0 \/ v[1] # 0

\* C2: for every Mpint payload v without a leading zero byte (the empty
\* payload and payloads with the high bit set included), Mpint::decode of
\* the bytes written by Mpint::encode(v) succeeds and returns exactly v.
C2_MpintRoundTrip ==
    (RoundTrip("MpintEncode", "MpintDecode") /\ NoLeadingZero(origin.arg))
        => res = Ok(origin.arg)

FrameOf(b) ==
    IF Len(b) >= 4 /\ b[1] = 0 /\ b[2] = 0 /\ b[3] = 0 /\ b[4] <= Len(b) - 4
    THEN [ok |-> TRUE, payload |-> SubSeq(b, 5, 4 + b[4]), rest |-> Drop(b, 4 + b[4])]
    ELSE [ok |-> FALSE, payload |-> <<>>, rest |-> <<>>]

\* C5: Mpint::decode reads a u32 length len and exactly len payload bytes;
\* a first payload byte 0x00 is removed (that byte only), and otherwise the
\* payload is returned unchanged.
C5_MpintDecodeRule ==
    (last = "MpintDecode" /\ FrameOf(before).ok) =>
        LET p == FrameOf(before).payload
        IN  /\ stream = FrameOf(before).rest
            /\ res = Ok(IF Len(p) > 0 /\ p[1] = 0 THEN Drop(p, 1) ELSE p)

C7_ByteArrayRoundTrip ==
    /\ last = "ByteArrayEncode" =>
          /\ Len(stream) = 4 + Len(origin.arg)
          /\ Take(stream, 4) = <<0, 0, 0, Len(origin.arg)>>
          /\ Drop(stream, 4) = origin.arg
    /\ RoundTrip("ByteArrayEncode", "ByteArrayDecode") =>
          /\ res = Ok(origin.arg)
          /\ stream = <<>>

C7_Witness ==
    /\ RoundTrip("ByteArrayEncode", "ByteArrayDecode")
    /\ Len(origin.arg) = 2
    /\ origin.arg[1] = 0
    /\ res.status = "Ok"

\* number of UTF-8 bytes of a scalar value
Utf8Len(c) == IF c < 128 THEN 1 ELSE IF c < 2048 THEN 2 ELSE IF c < 65536 THEN 3 ELSE 4

RECURSIVE ByteLength(_)
ByteLength(str) ==
    IF Len(str) = 0 THEN 0 ELSE Utf8Len(str[1]) + ByteLength(Drop(str, 1))

\* C8: for every valid UTF-8 string s, SshString::decode of the output of
\* SshString::encode(s) returns s, and the length prefix written is the
\* number of bytes of s, not its number of characters.
C8_SshStringRoundTrip ==
    /\ last = "SshStringEncode" =>
          /\ Take(stream, 4) = <<0, 0, 0, ByteLength(origin.arg)>>
          /\ Len(stream) = 4 + ByteLength(origin.arg)
    /\ RoundTrip("SshStringEncode", "SshStringDecode") =>
          /\ res = Ok(origin.arg)
          /\ stream = <<>>

C8_Witness ==
    /\ RoundTrip("SshStringEncode", "SshStringDecode")
    /\ Len(origin.arg) = 2
    /\ origin.arg[1] = 8364
    /\ res.status = "Ok"


(***************************************************************************)
(* Properties of the builder (checked under SpecBuilder).                  *)
(***************************************************************************)
BuildCalled == built.status # "None"

\* seconds of a timestamp of the builder's inputs (their upper limbs are 0)
Secs(tm) == tm[4]

RequiredFields ==
    {"public_key", "serial", "cert_type", "key_id", "valid_after",
     "valid_before", "signature_key", "signature"}

Unset(f) == ~IsSome(inner[f])

\* C9: build() returns InvalidTime whenever valid_after > now or
\* valid_before <= now, whatever other fields are set or missing; and
\* every certificate build() returns has valid_after <= now < valid_before
\* for the clock reading of that call.
C9_BuilderTimeInvariant ==
    BuildCalled =>
        /\ (\/ IsSome(inner.valid_after) /\ Secs(Unwrap(inner.valid_after)) > now
            \/ IsSome(inner.valid_before) /\ Secs(Unwrap(inner.valid_before)) <= now)
              => (built.status = "Err" /\ built.err = "InvalidTime")
        /\ built.status = "Ok" =>
              /\ Secs(Unwrap(built.cert).valid_after) <= now
              /\ now < Secs(Unwrap(built.cert).valid_before)

C9_Witness ==
    /\ BuildCalled
    /\ built.err = "InvalidTime"
    /\ Unset("public_key") /\ Unset("signature")
    /\ IsSome(inner.valid_after) /\ IsSome(inner.valid_before)
    /\ Secs(Unwrap(inner.valid_after)) > now
    /\ Secs(Unwrap(inner.valid_before)) > now

\* the Missing* error a field would have; SshCertificateGenerationError has
\* no such variant for the two timestamps
MissingErrorOf ==
    [f \in RequiredFields |->
        CASE f = "public_key" -> "MissingPublicKey"
          [] f = "serial" -> "MissingSerial"
          [] f = "cert_type" -> "MissingCertificateType"
          [] f = "key_id" -> "MissingKeyId"
          [] f = "valid_after" -> "MissingValidAfter"
          [] f = "valid_before" -> "MissingValidBefore"
          [] f = "signature_key" -> "MissingSignatureKey"
          [] f = "signature" -> "MissingSignature"]

\* C10 as stated: when a required field has not been set, build() returns
\* the typed Missing* error of such a field, and no certificate.
C10_MissingFieldError ==
    (BuildCalled /\ \E f \in RequiredFields : Unset(f)) =>
        /\ built.status = "Err"
        /\ \E f \in RequiredFields : Unset(f) /\ built.err = MissingErrorOf[f]

\* the fields with a Missing* variant, in the order build() unwraps them
UnwrapOrder ==
    <<"public_key", "serial", "cert_type", "key_id", "signature_key", "signature">>

\* C10 amended: when a required field has not been set, build() returns an
\* error and never a certificate (no required field is defaulted): the
\* error is InvalidTime when valid_after or valid_before is unset or now is
\* outside [valid_after, valid_before), and otherwise the typed Missing*
\* error of the first unset field in the order public_key, serial,
\* cert_type, key_id, signature_key, signature.
C10_MissingFieldIsError ==
    (BuildCalled /\ \E f \in RequiredFields : Unset(f)) =>
        /\ built.status = "Err"
        /\ built.cert = None
        /\ IF \/ Unset("valid_after") \/ Unset("valid_before")
              \/ Secs(Unwrap(inner.valid_after)) > now
              \/ Secs(Unwrap(inner.valid_before)) <= now
           THEN built.err = "InvalidTime"
           ELSE \E i \in 1..Len(UnwrapOrder) :
                   /\ Unset(UnwrapOrder[i])
                   /\ \A j \in 1..(i - 1) : ~Unset(UnwrapOrder[j])
                   /\ built.err = MissingErrorOf[UnwrapOrder[i]]

C10_Witness ==
    /\ BuildCalled
    /\ built.err = "MissingSerial"
    /\ Unset("serial") /\ Unset("signature") /\ ~Unset("public_key")

(***************************************************************************)
(* Text and base64.  The textual certificate is a sequence of bytes; the   *)
(* base64 alphabet is the standard one with '=' padding.                   *)
(***************************************************************************)
\* RSA_CERTIFICATE_HEADER = "ssh-rsa-cert-v01@openssh.com"
RSA_CERTIFICATE_HEADER ==
    <<115, 115, 104, 45, 114, 115, 97, 45, 99, 101, 114, 116, 45, 118, 48, 49,
      64, 111, 112, 101, 110, 115, 115, 104, 46, 99, 111, 109>>

\* "ssh-rsa"
SshRsaName == <<115, 115, 104, 45, 114, 115, 97>>

\* read_to_buffer_till_whitespace: the bytes before the first ' ' (or all of
\* them at end of input) and what follows that ' '
ReadTillWhitespace(bytes) ==
    Bind(bytes, LAMBDA s :
        Bind(IF \E k \in 1..Len(s) : s[k] = 32
             THEN CHOOSE k \in 1..Len(s) : s[k] = 32 /\ \A j \in 1..(k - 1) : s[j] # 32
             ELSE Len(s) + 1,
             LAMBDA i : [token |-> Take(s, i - 1), rest |-> Drop(s, i)]))

\* String::from_utf8 succeeds exactly on well-formed UTF-8
Utf8Valid(bytes) == Bind(bytes, LAMBDA b : AsBytes(FromUtf8Lossy(b)) = b)

\* the character of a 6-bit value
Base64Char(v) ==
    IF v < 26 THEN 65 + v
    ELSE IF v < 52 THEN 97 + (v - 26)
    ELSE IF v < 62 THEN 48 + (v - 52)
    ELSE IF v = 62 THEN 43
    ELSE 47

\* the 6-bit value of a character, -1 for a character outside the alphabet
Base64Value(c) ==
    IF c >= 65 /\ c <= 90 THEN c - 65
    ELSE IF c >= 97 /\ c <= 122 THEN c - 97 + 26
    ELSE IF c >= 48 /\ c <= 57 THEN c - 48 + 52
    ELSE IF c = 43 THEN 62
    ELSE IF c = 47 THEN 63
    ELSE -1

\* the j-th 6-bit group of the bytes b, zero bits after the last byte
Base64Group(b, j) ==
    Bind((j - 1) * 6, LAMBDA bit :
        ((b[(bit \div 8) + 1] * 256 + SafeGet(b, (bit \div 8) + 2))
            \div (2 ^ (10 - (bit % 8)))) % 64)

\* base64::encode
Base64Encode(bytes) ==
    Bind(bytes, LAMBDA b :
        Bind((Len(b) * 8 + 5) \div 6, LAMBDA nsym :
            [j \in 1..(((Len(b) + 2) \div 3) * 4) |->
                IF j <= nsym THEN Base64Char(Base64Group(b, j)) ELSE 61]))

\* the number of '=' that end the text t, at most two
Base64Padding(t) ==
    IF Len(t) >= 1 /\ t[Len(t)] = 61
    THEN (IF Len(t) >= 2 /\ t[Len(t) - 1] = 61 THEN 2 ELSE 1)
    ELSE 0

\* the i-th byte of the 6-bit groups v
Base64Byte(v, i) ==
    Bind((i - 1) * 8, LAMBDA bit :
        ((v[(bit \div 6) + 1] * 64 + v[(bit \div 6) + 2])
            \div (2 ^ (4 - (bit % 6)))) % 256)

\* base64::decode: the padding may be left out but, when present, completes
\* the last group of four; the bits of the last symbol that belong to no
\* byte must be zero
Base64Decode(text) ==
    Bind(text, LAMBDA t :
        Bind([k \in 1..(Len(t) - Base64Padding(t)) |-> Base64Value(t[k])], LAMBDA v :
            IF \E k \in 1..Len(v) : v[k] < 0
            THEN [status |-> "Err", value |-> <<>>]
            ELSE IF Len(v) % 4 = 1 \/ (Len(v) < Len(t) /\ Len(t) % 4 # 0)
            THEN [status |-> "Err", value |-> <<>>]
            ELSE IF Len(v) > 0 /\ v[Len(v)] % (2 ^ ((Len(v) * 6) % 8)) # 0
            THEN [status |-> "Err", value |-> <<>>]
            ELSE [status |-> "Ok",
                  value |-> [i \in 1..((Len(v) * 6) \div 8) |-> Base64Byte(v, i)]]))

(***************************************************************************)
(* Steps of the certificate decoder.  A step is                            *)
(* [status, err, detail, value, rest] with status Ok, Err or Panic.        *)
(***************************************************************************)
StepOk(v, rest) ==
    [status |-> "Ok", err |-> "None", detail |-> <<>>, value |-> v, rest |-> rest]

StepErr(e, detail) ==
    [status |-> "Err", err |-> e, detail |-> detail, value |-> <<>>, rest |-> <<>>]

StepPanic ==
    [status |-> "Panic", err |-> "None", detail |-> <<>>, value |-> <<>>, rest |-> <<>>]

\* the ? on a primitive's io::Result: #[from] std::io::Error
Lift(result) ==
    Bind(result, LAMBDA r :
        IF r.status = "Ok" THEN StepOk(r.value, r.rest)
        ELSE IF r.status = "Panic" THEN StepPanic
        ELSE StepErr("CertificateProcessingError", <<>>))

\* cursor.read_u64::<BigEndian>()
ReadU64(s) ==
    IF Len(s) < 8 THEN StepErr("CertificateProcessingError", <<>>)
    ELSE StepOk(<<s[1] * 256 + s[2], s[3] * 256 + s[4],
                  s[5] * 256 + s[6], s[7] * 256 + s[8]>>, Drop(s, 8))

\* write_u64::<BigEndian>
WriteU64(v) ==
    <<v[1] \div 256, v[1] % 256, v[2] \div 256, v[2] % 256,
      v[3] \div 256, v[3] % 256, v[4] \div 256, v[4] % 256>>

\* SshTime: one uint64, seconds since the epoch
SshTimeDecode(s) == ReadU64(s)

SshTimeEncode(tm) == WriteU64(tm)

\* SshCertType::decode with 0 read as Client
SshCertTypeDecodeMutZeroClient(s) ==
    IF Len(s) < 4 THEN StepErr("CertificateProcessingError", <<>>)
    ELSE IF Take(s, 4) \in {<<0, 0, 0, 0>>, <<0, 0, 0, 1>>} THEN StepOk("Client", Drop(s, 4))
    ELSE IF Take(s, 4) = <<0, 0, 0, 2>> THEN StepOk("Host", Drop(s, 4))
    ELSE StepErr("InvalidCertificateType", Take(s, 4))

\* SshCertType::decode: read_u32 and TryFrom<u32>
SshCertTypeDecode(s) ==
    IF Len(s) < 4 THEN StepErr("CertificateProcessingError", <<>>)
    ELSE IF Take(s, 4) = <<0, 0, 0, 1>> THEN StepOk("Client", Drop(s, 4))
    ELSE IF Take(s, 4) = <<0, 0, 0, 2>> THEN StepOk("Host", Drop(s, 4))
    ELSE StepErr("InvalidCertificateType", Take(s, 4))

\* SshCertType::encode: Into<u32> and write_u32
SshCertTypeEncode(c) == IF c = "Client" THEN WriteU32(1) ELSE WriteU32(2)

\* TryFrom<String> for SshCriticalOptionType with VerifyRequired as the
\* default arm
CriticalOptionTypeFromMutDefault(str) ==
    IF str = <<102, 111, 114, 99, 101, 45, 99, 111, 109, 109, 97, 110, 100>>
    THEN "ForceCommand"
    ELSE IF str = <<115, 111, 117, 114, 99, 101, 45, 97, 100, 100, 114, 101, 115, 115>>
    THEN "SourceAddress"
    ELSE "VerifyRequired"

\* TryFrom<String> for SshCriticalOptionType
CriticalOptionTypeFrom(str) ==
    IF str = <<102, 111, 114, 99, 101, 45, 99, 111, 109, 109, 97, 110, 100>>
    THEN "ForceCommand"
    ELSE IF str = <<115, 111, 117, 114, 99, 101, 45, 97, 100, 100, 114, 101, 115, 115>>
    THEN "SourceAddress"
    ELSE IF str = <<118, 101, 114, 105, 102, 121, 45, 114, 101, 113, 117, 105, 114,
                    101, 100>>
    THEN "VerifyRequired"
    ELSE "Unsupported"

\* ToString for SshCriticalOptionType
CriticalOptionTypeToString(ty) ==
    CASE ty = "ForceCommand" ->
            <<102, 111, 114, 99, 101, 45, 99, 111, 109, 109, 97, 110, 100>>
      [] ty = "SourceAddress" ->
            <<115, 111, 117, 114, 99, 101, 45, 97, 100, 100, 114, 101, 115, 115>>
      [] ty = "VerifyRequired" ->
            <<118, 101, 114, 105, 102, 121, 45, 114, 101, 113, 117, 105, 114, 101, 100>>

\* "permit-"
Permit == <<112, 101, 114, 109, 105, 116, 45>>

\* "forwarding"
Forwarding == <<102, 111, 114, 119, 97, 114, 100, 105, 110, 103>>

\* TryFrom<String> for SshExtensionType
ExtensionTypeFrom(str) ==
    IF str = <<110, 111, 45, 116, 111, 117, 99, 104, 45, 114, 101, 113, 117, 105,
               114, 101, 100>>
    THEN "NoTouchRequired"
    ELSE IF str = Permit \o <<88, 49, 49, 45>> \o Forwarding THEN "PermitX11Forwarding"
    ELSE IF str = Permit \o <<97, 103, 101, 110, 116, 45>> \o Forwarding
    THEN "PermitAgentForwarding"
    ELSE IF str = Permit \o <<112, 111, 114, 116, 45>> \o Forwarding
    THEN "PermitPortForwarding"
    ELSE IF str = Permit \o <<112, 116, 121>> THEN "PermitPty"
    ELSE IF str = Permit \o <<117, 115, 101, 114, 45, 114, 99>> THEN "PermitUserPc"
    ELSE "Unsupported"

\* ToString for SshExtensionType
ExtensionTypeToString(ty) ==
    CASE ty = "NoTouchRequired" ->
            <<110, 111, 45, 116, 111, 117, 99, 104, 45, 114, 101, 113, 117, 105,
              114, 101, 100>>
      [] ty = "PermitUserPc" -> Permit \o <<117, 115, 101, 114, 45, 114, 99>>
      [] ty = "PermitPty" -> Permit \o <<112, 116, 121>>
      [] ty = "PermitAgentForwarding" ->
            Permit \o <<97, 103, 101, 110, 116, 45>> \o Forwarding
      [] ty = "PermitPortForwarding" ->
            Permit \o <<112, 111, 114, 116, 45>> \o Forwarding
      [] ty = "PermitX11Forwarding" -> Permit \o <<88, 49, 49, 45>> \o Forwarding

\* SshCriticalOption::decode
CriticalOptionDecode(s) ==
    Bind(Lift(SshStringDecode(s)), LAMBDA ty :
        IF ty.status # "Ok" THEN ty
        ELSE Bind(Lift(SshStringDecode(ty.rest)), LAMBDA data :
            IF data.status # "Ok" THEN data
            ELSE IF CriticalOptionTypeFrom(ty.value) = "Unsupported"
            THEN StepErr("UnsupportedCriticalOptionType", ty.value)
            ELSE StepOk([option_type |-> CriticalOptionTypeFrom(ty.value),
                         data |-> data.value], data.rest)))

\* SshCriticalOption::encode
CriticalOptionEncode(o) ==
    SshStringEncode(CriticalOptionTypeToString(o.option_type)) \o SshStringEncode(o.data)

\* SshExtension::decode
ExtensionDecode(s) ==
    Bind(Lift(SshStringDecode(s)), LAMBDA ty :
        IF ty.status # "Ok" THEN ty
        ELSE Bind(Lift(SshStringDecode(ty.rest)), LAMBDA data :
            IF data.status # "Ok" THEN data
            ELSE IF ExtensionTypeFrom(ty.value) = "Unsupported"
            THEN StepErr("UnsupportedExtensionType", ty.value)
            ELSE StepOk([extension_type |-> ExtensionTypeFrom(ty.value),
                         data |-> data.value], data.rest)))

\* SshExtension::encode
ExtensionEncode(x) ==
    SshStringEncode(ExtensionTypeToString(x.extension_type)) \o SshStringEncode(x.data)

\* one element of a list of the given kind, read from the cursor s
ElementDecode(kind, s) ==
    CASE kind = "String" -> Lift(SshStringDecode(s))
      [] kind = "CriticalOption" -> CriticalOptionDecode(s)
      [] kind = "Extension" -> ExtensionDecode(s)

ElementEncode(kind, x) ==
    CASE kind = "String" -> SshStringEncode(x)
      [] kind = "CriticalOption" -> CriticalOptionEncode(x)
      [] kind = "Extension" -> ExtensionEncode(x)

RECURSIVE Elements(_, _)
\* while cursor.position() < len { res.push(decode(&mut cursor)?) }
Elements(kind, payload) ==
    IF Len(payload) = 0 THEN StepOk(<<>>, <<>>)
    ELSE Bind(ElementDecode(kind, payload), LAMBDA x :
            IF x.status # "Ok" THEN x
            ELSE Bind(Elements(kind, x.rest), LAMBDA tl :
                    IF tl.status # "Ok" THEN tl
                    ELSE StepOk(<<x.value>> \o tl.value, <<>>)))

\* Vec<_>::decode that leaves the payload in the enclosing stream
VecDecodeMutKeepPayload(kind, s) ==
    Bind(Lift(ByteArrayDecode(s)), LAMBDA data :
        IF data.status # "Ok" THEN data
        ELSE Bind(Elements(kind, data.value), LAMBDA xs :
                IF xs.status # "Ok" THEN xs ELSE StepOk(xs.value, Drop(s, 4))))

\* Vec<String>::decode, Vec<SshCriticalOption>::decode, Vec<SshExtension>::decode
VecDecode(kind, s) ==
    Bind(Lift(ByteArrayDecode(s)), LAMBDA data :
        IF data.status # "Ok" THEN data
        ELSE Bind(Elements(kind, data.value), LAMBDA xs :
                IF xs.status # "Ok" THEN xs ELSE StepOk(xs.value, data.rest)))

RECURSIVE ElementsEncode(_, _, _)
\* for x in self.iter() { x.encode(&mut data)? }, from the i-th element on
ElementsEncode(kind, xs, i) ==
    IF i > Len(xs) THEN <<>>
    ELSE ElementEncode(kind, xs[i]) \o ElementsEncode(kind, xs, i + 1)

\* Vec<String>::encode, Vec<SshCriticalOption>::encode, Vec<SshExtension>::encode
VecEncode(kind, xs) == ByteArrayEncode(ElementsEncode(kind, xs, 1))

(***************************************************************************)
(* RSA public keys.  A BigUint is the big-endian bytes of the number with  *)
(* no leading zero (the empty sequence is 0).                              *)
(***************************************************************************)
\* BigUint::from_bytes_be
BigUintFromBytesBe(bytes) ==
    Bind(bytes, LAMBDA b :
        IF \A i \in 1..Len(b) : b[i] = 0 THEN <<>>
        ELSE Drop(b, (CHOOSE i \in 1..Len(b) :
                         b[i] # 0 /\ \A j \in 1..(i - 1) : b[j] = 0) - 1))

\* BigUint::to_bytes_be
ToBytesBe(x) == IF Len(x) = 0 THEN <<0>> ELSE x

\* RsaPublicKey::new(n, e): the public exponent is in 2..2^33-1
RsaPublicKeyNew(n, exponent) ==
    Bind(exponent, LAMBDA e :
        IF Len(e) = 0 \/ e = <<1>> \/ Len(e) > 5 \/ (Len(e) = 5 /\ e[1] > 1)
        THEN StepErr("RsaError", <<>>)
        ELSE StepOk([e |-> e, n |-> n], <<>>))

\* SshInnerPublicKey::decode: "ssh-rsa", Mpint e, Mpint n
SshInnerPublicKeyDecode(s) ==
    Bind(SshStringDecode(s), LAMBDA name :
        IF name.status # "Ok" THEN StepErr("InvalidPublicKey", <<>>)
        ELSE IF name.value # SshRsaName THEN StepErr("InvalidPublicKey", name.value)
        ELSE Bind(MpintDecode(name.rest), LAMBDA e :
            IF e.status = "Panic" THEN StepPanic
            ELSE IF e.status # "Ok" THEN StepErr("InvalidPublicKey", <<>>)
            ELSE Bind(MpintDecode(e.rest), LAMBDA n :
                IF n.status = "Panic" THEN StepPanic
                ELSE IF n.status # "Ok" THEN StepErr("InvalidPublicKey", <<>>)
                ELSE Bind(RsaPublicKeyNew(BigUintFromBytesBe(n.value),
                                          BigUintFromBytesBe(e.value)), LAMBDA key :
                    IF key.status # "Ok" THEN StepErr("InvalidPublicKey", <<>>)
                    ELSE StepOk(key.value, n.rest)))))

\* SshInnerPublicKey::encode
SshInnerPublicKeyEncode(k) ==
    SshStringEncode(SshRsaName) \o MpintEncode(ToBytesBe(k.e)) \o MpintEncode(ToBytesBe(k.n))

(***************************************************************************)
(* SshCertificate                                                          *)
(***************************************************************************)
CertErr(st) == [status |-> st.status, err |-> st.err, detail |-> st.detail, cert |-> None]

CertOk(c) == [status |-> "Ok", err |-> "None", detail |-> <<>>, cert |-> Some(c)]

\* what decode reads from the binary body, in order; public_key is the
\* RsaPublicKey::new made of e and n, which reads nothing
BodyFields ==
    <<"key_type", "nonce", "e", "n", "public_key", "serial", "cert_type", "key_id",
      "valid_principals", "valid_after", "valid_before", "critical_options",
      "extensions", "reserved", "signature_key", "signature">>

NoFields == [f \in {BodyFields[i] : i \in 1..Len(BodyFields)} |-> <<>>]

\* one field read from the cursor s, after the fields acc
DecodeField(field, s, acc) ==
    CASE field = "key_type" ->
            Bind(Lift(SshStringDecode(s)), LAMBDA kt :
                IF kt.status # "Ok" THEN kt
                ELSE IF kt.value # RSA_CERTIFICATE_HEADER
                THEN StepErr("InvalidCertificateKeyType", kt.value)
                ELSE StepOk("SshRsaV01", kt.rest))
      [] field \in {"nonce", "reserved", "signature"} -> Lift(ByteArrayDecode(s))
      [] field \in {"e", "n"} -> Lift(MpintDecode(s))
      [] field = "public_key" ->
            Bind(RsaPublicKeyNew(BigUintFromBytesBe(acc.n), BigUintFromBytesBe(acc.e)),
                 LAMBDA key : IF key.status # "Ok" THEN key ELSE StepOk(key.value, s))
      [] field = "serial" -> ReadU64(s)
      [] field = "cert_type" -> SshCertTypeDecode(s)
      [] field = "key_id" -> Lift(SshStringDecode(s))
      [] field = "valid_principals" -> VecDecode("String", s)
      [] field \in {"valid_after", "valid_before"} -> SshTimeDecode(s)
      [] field = "critical_options" -> VecDecode("CriticalOption", s)
      [] field = "extensions" -> VecDecode("Extension", s)
      [] field = "signature_key" ->
            Bind(Lift(ByteArrayDecode(s)), LAMBDA blob :
                IF blob.status # "Ok" THEN blob
                ELSE Bind(SshInnerPublicKeyDecode(blob.value), LAMBDA key :
                        IF key.status # "Ok" THEN key
                        ELSE StepOk(key.value, blob.rest)))

RECURSIVE DecodeFields(_, _, _)
\* the fields from the i-th on, read one after the other; the first failure
\* ends the decoding
DecodeFields(i, s, acc) ==
    IF i > Len(BodyFields) THEN StepOk(acc, s)
    ELSE Bind(DecodeField(BodyFields[i], s, acc), LAMBDA r :
            IF r.status # "Ok" THEN r
            ELSE DecodeFields(i + 1, r.rest, [acc EXCEPT ![BodyFields[i]] = r.value]))

\* the binary body read from the decoded base64
DecodeBody(buf) == DecodeFields(1, buf, NoFields)

\* Ok(SshCertificate { ... })
Certificate(f, comment) ==
    [key_type |-> f.key_type, public_key |-> f.public_key, nonce |-> f.nonce,
     serial |-> f.serial, cert_type |-> f.cert_type, key_id |-> f.key_id,
     valid_principals |-> f.valid_principals, valid_after |-> f.valid_after,
     valid_before |-> f.valid_before, critical_options |-> f.critical_options,
     extensions |-> f.extensions, signature_key |-> f.signature_key,
     signature |-> f.signature, comment |-> comment]

\* SshCertificate::decode with the base64 body decoded before the header
\* token is looked at
CertDecodeMutBodyFirst(text) ==
    Bind(ReadTillWhitespace(text), LAMBDA hd :
        Bind(ReadTillWhitespace(hd.rest), LAMBDA data :
            Bind(Base64Decode(data.token), LAMBDA raw :
                IF raw.status # "Ok" THEN CertErr(StepErr("Base64DecodeError", <<>>))
                ELSE IF ~Utf8Valid(hd.token) THEN CertErr(StepErr("FromUtf8Error", <<>>))
                ELSE IF FromUtf8Lossy(hd.token) # RSA_CERTIFICATE_HEADER
                THEN CertErr(StepErr("UnsupportedCertificateType",
                                     FromUtf8Lossy(hd.token)))
                ELSE Bind(DecodeBody(raw.value), LAMBDA body :
                    IF body.status # "Ok" THEN CertErr(body)
                    ELSE Bind(ReadTillWhitespace(data.rest), LAMBDA comment :
                        IF ~Utf8Valid(comment.token)
                        THEN CertErr(StepErr("FromUtf8Error", <<>>))
                        ELSE CertOk(Certificate(body.value,
                                                FromUtf8Lossy(comment.token))))))))

\* SshCertificate::decode
CertDecode(text) ==
    Bind(ReadTillWhitespace(text), LAMBDA hd :
        IF ~Utf8Valid(hd.token) THEN CertErr(StepErr("FromUtf8Error", <<>>))
        ELSE IF FromUtf8Lossy(hd.token) # RSA_CERTIFICATE_HEADER
        THEN CertErr(StepErr("UnsupportedCertificateType", FromUtf8Lossy(hd.token)))
        ELSE Bind(ReadTillWhitespace(hd.rest), LAMBDA data :
            Bind(Base64Decode(data.token), LAMBDA raw :
                IF raw.status # "Ok" THEN CertErr(StepErr("Base64DecodeError", <<>>))
                ELSE Bind(DecodeBody(raw.value), LAMBDA body :
                    IF body.status # "Ok" THEN CertErr(body)
                    ELSE Bind(ReadTillWhitespace(data.rest), LAMBDA comment :
                        IF ~Utf8Valid(comment.token)
                        THEN CertErr(StepErr("FromUtf8Error", <<>>))
                        ELSE CertOk(Certificate(body.value,
                                                FromUtf8Lossy(comment.token))))))))

\* the binary body written by SshCertificate::encode
EncodeBody(c) ==
    SshStringEncode(RSA_CERTIFICATE_HEADER)
      \o ByteArrayEncode(c.nonce)
      \o MpintEncode(ToBytesBe(c.public_key.e))
      \o MpintEncode(ToBytesBe(c.public_key.n))
      \o WriteU64(c.serial)
      \o SshCertTypeEncode(c.cert_type)
      \o SshStringEncode(c.key_id)
      \o VecEncode("String", c.valid_principals)
      \o SshTimeEncode(c.valid_after)
      \o SshTimeEncode(c.valid_before)
      \o VecEncode("CriticalOption", c.critical_options)
      \o VecEncode("Extension", c.extensions)
      \o ByteArrayEncode(<<>>)
      \o ByteArrayEncode(SshInnerPublicKeyEncode(c.signature_key))
      \o ByteArrayEncode(c.signature)

\* SshCertificate::encode without the comment
CertEncodeMutNoComment(c) ==
    Bind(EncodeBody(c), LAMBDA cert_data :
        RSA_CERTIFICATE_HEADER \o <<32>> \o Base64Encode(cert_data) \o <<32>>)

\* SshCertificate::encode
CertEncode(c) ==
    Bind(EncodeBody(c), LAMBDA cert_data :
        RSA_CERTIFICATE_HEADER \o <<32>> \o Base64Encode(cert_data) \o <<32>>
          \o AsBytes(c.comment))

(***************************************************************************)
(* Certificates handed to SshCertificate::decode.                          *)
(***************************************************************************)
\* the certificate of the test test_decode (2012 bytes)
TestDecodeCertificate ==
    <<115, 115, 104, 45, 114, 115, 97, 45, 99, 101, 114, 116, 45, 118, 48, 49, 64, 111, 112, 101,
      110, 115, 115, 104, 46, 99, 111, 109, 32, 65, 65, 65, 65, 72, 72, 78, 122, 97, 67, 49,
      121, 99, 50, 69, 116, 89, 50, 86, 121, 100, 67, 49, 50, 77, 68, 70, 65, 98, 51, 66,
      108, 98, 110, 78, 122, 97, 67, 53, 106, 98, 50, 48, 65, 65, 65, 65, 103, 100, 69, 81,
      84, 78, 114, 85, 86, 68, 116, 113, 83, 89, 87, 109, 68, 107, 79, 98, 74, 69, 43, 49,
      69, 116, 108, 120, 66, 82, 84, 114, 43, 71, 69, 83, 89, 50, 70, 117, 47, 69, 119, 81,
      65, 65, 65, 65, 68, 65, 81, 65, 66, 65, 65, 65, 66, 103, 81, 67, 47, 106, 82, 118,
      110, 110, 103, 72, 77, 57, 51, 66, 111, 86, 117, 81, 99, 84, 49, 107, 99, 114, 73, 71,
      112, 76, 48, 73, 57, 114, 113, 77, 53, 79, 50, 49, 74, 113, 70, 47, 68, 105, 57, 113,
      78, 105, 122, 111, 101, 89, 55, 104, 102, 109, 78, 66, 43, 101, 51, 72, 111, 120, 71, 105,
      120, 66, 105, 116, 118, 53, 78, 66, 55, 48, 47, 77, 113, 51, 81, 113, 66, 43, 52, 74,
      109, 103, 53, 86, 109, 51, 83, 112, 104, 98, 112, 85, 78, 102, 90, 97, 82, 66, 77, 120,
      81, 73, 72, 106, 67, 107, 53, 78, 73, 81, 111, 101, 109, 80, 84, 65, 112, 86, 84, 111,
      87, 102, 79, 117, 105, 120, 81, 47, 102, 66, 76, 85, 90, 53, 82, 66, 74, 70, 56, 51,
      67, 118, 114, 67, 109, 82, 80, 67, 106, 56, 56, 50, 72, 120, 82, 102, 73, 70, 68, 84,
      110, 67, 107, 86, 87, 83, 121, 43, 109, 75, 121, 72, 79, 118, 101, 101, 73, 88, 50, 88,
      99, 100, 81, 49, 76, 56, 119, 114, 76, 113, 120, 109, 122, 65, 112, 106, 89, 76, 70, 50,
      51, 69, 73, 68, 86, 54, 87, 50, 74, 50, 98, 50, 74, 97, 112, 105, 97, 104, 107, 98,
      70, 106, 66, 98, 79, 121, 50, 72, 110, 108, 106, 48, 122, 43, 109, 79, 57, 87, 67, 116,
      113, 79, 68, 47, 99, 118, 73, 50, 79, 52, 73, 107, 66, 99, 105, 108, 49, 103, 51, 106,
      74, 48, 107, 71, 80, 99, 53, 97, 100, 105, 57, 106, 110, 117, 68, 108, 69, 56, 66, 54,
      69, 105, 69, 97, 67, 111, 105, 90, 88, 77, 66, 88, 87, 81, 89, 54, 100, 75, 101, 112,
      114, 55, 81, 119, 73, 79, 83, 88, 80, 52, 68, 114, 97, 86, 65, 80, 67, 71, 72, 79,
      75, 55, 104, 48, 105, 86, 121, 122, 83, 43, 108, 118, 112, 47, 52, 108, 101, 119, 72, 114,
      75, 69, 89, 56, 56, 98, 67, 118, 89, 71, 108, 47, 87, 104, 84, 57, 109, 99, 109, 103,
      88, 82, 111, 107, 54, 65, 107, 101, 88, 56, 72, 118, 54, 70, 73, 70, 109, 112, 47, 105,
      48, 86, 67, 100, 105, 102, 54, 118, 47, 117, 80, 111, 79, 116, 57, 54, 71, 55, 67, 104,
      78, 52, 101, 118, 57, 80, 47, 53, 109, 74, 49, 105, 106, 51, 86, 90, 69, 65, 82, 52,
      107, 99, 102, 114, 115, 99, 57, 51, 109, 98, 83, 118, 98, 120, 113, 67, 86, 51, 119, 52,
      81, 98, 57, 54, 52, 102, 70, 100, 86, 98, 108, 97, 87, 99, 111, 43, 105, 107, 101, 55,
      68, 101, 85, 54, 120, 102, 121, 80, 47, 87, 99, 47, 109, 76, 48, 119, 43, 67, 98, 66,
      83, 119, 102, 102, 102, 78, 102, 97, 89, 82, 83, 86, 112, 122, 50, 50, 98, 75, 100, 84,
      112, 102, 86, 50, 77, 84, 52, 77, 65, 65, 65, 65, 65, 65, 65, 65, 65, 65, 65, 65,
      65, 65, 65, 69, 65, 65, 65, 65, 67, 83, 85, 81, 65, 65, 65, 65, 76, 65, 65, 65,
      65, 66, 51, 70, 114, 89, 88, 82, 112, 98, 50, 52, 65, 65, 65, 65, 65, 89, 86, 77,
      104, 47, 65, 65, 65, 65, 65, 66, 106, 77, 119, 82, 65, 65, 65, 65, 65, 65, 65, 65,
      65, 65, 73, 73, 65, 65, 65, 65, 86, 99, 71, 86, 121, 98, 87, 108, 48, 76, 86, 103,
      120, 77, 83, 49, 109, 98, 51, 74, 51, 89, 88, 74, 107, 97, 87, 53, 110, 65, 65, 65,
      65, 65, 65, 65, 65, 65, 66, 100, 119, 90, 88, 74, 116, 97, 88, 81, 116, 89, 87, 100,
      108, 98, 110, 81, 116, 90, 109, 57, 121, 100, 50, 70, 121, 90, 71, 108, 117, 90, 119, 65,
      65, 65, 65, 65, 65, 65, 65, 65, 87, 99, 71, 86, 121, 98, 87, 108, 48, 76, 88, 66,
      118, 99, 110, 81, 116, 90, 109, 57, 121, 100, 50, 70, 121, 90, 71, 108, 117, 90, 119, 65,
      65, 65, 65, 65, 65, 65, 65, 65, 75, 99, 71, 86, 121, 98, 87, 108, 48, 76, 88, 66,
      48, 101, 81, 65, 65, 65, 65, 65, 65, 65, 65, 65, 79, 99, 71, 86, 121, 98, 87, 108,
      48, 76, 88, 86, 122, 90, 88, 73, 116, 99, 109, 77, 65, 65, 65, 65, 65, 65, 65, 65,
      65, 65, 65, 65, 65, 65, 90, 99, 65, 65, 65, 65, 72, 99, 51, 78, 111, 76, 88, 74,
      122, 89, 81, 65, 65, 65, 65, 77, 66, 65, 65, 69, 65, 65, 65, 71, 66, 65, 77, 108,
      70, 99, 113, 97, 110, 86, 52, 112, 66, 83, 119, 115, 50, 111, 119, 109, 107, 99, 77, 83,
      69, 79, 65, 48, 118, 89, 56, 114, 101, 115, 120, 113, 73, 67, 107, 88, 106, 117, 118, 100,
      114, 119, 78, 53, 50, 68, 115, 104, 70, 99, 88, 121, 90, 98, 85, 77, 47, 47, 86, 72,
      115, 119, 72, 109, 77, 83, 51, 72, 72, 88, 54, 119, 79, 100, 82, 122, 90, 110, 55, 57,
      70, 65, 57, 97, 74, 43, 105, 87, 70, 65, 117, 81, 78, 120, 103, 72, 53, 83, 100, 117,
      66, 102, 121, 108, 88, 48, 75, 79, 56, 76, 101, 70, 51, 97, 43, 104, 122, 98, 78, 101,
      74, 78, 85, 120, 110, 115, 81, 104, 76, 109, 77, 90, 88, 122, 52, 50, 115, 75, 56, 78,
      120, 111, 100, 103, 70, 104, 118, 83, 70, 76, 49, 72, 115, 65, 78, 55, 86, 105, 72, 48,
      101, 103, 89, 107, 101, 100, 49, 69, 75, 53, 52, 77, 66, 98, 80, 71, 112, 86, 113, 50,
      109, 54, 67, 118, 56, 115, 66, 88, 97, 98, 50, 90, 66, 50, 71, 79, 67, 121, 48, 47,
      78, 51, 109, 53, 83, 119, 67, 74, 47, 104, 105, 120, 52, 103, 80, 66, 43, 118, 68, 49,
      65, 88, 114, 87, 108, 99, 86, 76, 56, 89, 55, 56, 57, 65, 115, 71, 55, 114, 49, 122,
      70, 73, 107, 43, 85, 98, 47, 57, 65, 76, 77, 55, 113, 76, 90, 48, 99, 90, 111, 55,
      71, 56, 84, 101, 47, 66, 51, 74, 103, 89, 111, 119, 119, 87, 121, 43, 85, 69, 43, 56,
      47, 75, 52, 120, 121, 50, 118, 101, 82, 107, 77, 112, 83, 103, 106, 51, 67, 115, 68, 89,
      72, 51, 101, 80, 67, 122, 119, 108, 78, 78, 53, 106, 98, 103, 104, 73, 82, 56, 107, 117,
      79, 43, 119, 82, 88, 97, 118, 75, 107, 120, 74, 98, 122, 118, 99, 90, 83, 88, 73, 116,
      117, 111, 120, 53, 99, 56, 72, 55, 110, 114, 85, 115, 90, 119, 118, 56, 56, 119, 101, 43,
      111, 97, 98, 113, 52, 112, 115, 48, 106, 50, 113, 119, 84, 122, 71, 73, 106, 76, 56, 76,
      102, 122, 89, 97, 112, 98, 66, 78, 113, 108, 107, 111, 84, 54, 88, 65, 120, 87, 72, 43,
      105, 68, 117, 104, 72, 74, 101, 48, 51, 115, 77, 48, 87, 106, 106, 66, 43, 103, 47, 86,
      119, 108, 56, 107, 88, 43, 114, 56, 114, 113, 48, 84, 101, 119, 51, 77, 57, 104, 87, 73,
      99, 77, 70, 107, 90, 52, 71, 84, 69, 56, 104, 110, 106, 121, 68, 105, 79, 111, 121, 53,
      55, 120, 117, 57, 51, 73, 68, 112, 105, 97, 119, 70, 77, 71, 103, 66, 65, 84, 122, 88,
      119, 113, 56, 120, 120, 72, 98, 68, 87, 89, 109, 102, 84, 106, 110, 114, 43, 83, 47, 120,
      100, 104, 122, 73, 113, 109, 73, 67, 52, 50, 81, 65, 65, 65, 90, 81, 65, 65, 65, 65,
      77, 99, 110, 78, 104, 76, 88, 78, 111, 89, 84, 73, 116, 78, 84, 69, 121, 65, 65, 65,
      66, 103, 67, 72, 120, 113, 48, 115, 84, 105, 50, 82, 108, 108, 74, 80, 50, 99, 84, 100,
      56, 57, 72, 99, 102, 121, 113, 53, 105, 66, 103, 53, 104, 82, 50, 81, 71, 53, 109, 54,
      48, 85, 110, 116, 71, 72, 79, 65, 115, 118, 104, 52, 53, 113, 122, 99, 115, 116, 81, 106,
      82, 51, 122, 106, 79, 121, 88, 111, 105, 47, 79, 108, 74, 56, 121, 74, 54, 109, 118, 56,
      54, 85, 120, 56, 108, 109, 110, 79, 70, 47, 72, 101, 72, 114, 73, 53, 66, 56, 108, 56,
      87, 86, 53, 49, 107, 102, 105, 76, 90, 116, 75, 51, 48, 84, 43, 49, 81, 83, 97, 90,
      54, 52, 118, 86, 52, 121, 101, 75, 77, 105, 107, 70, 49, 107, 84, 72, 74, 54, 106, 89,
      74, 77, 65, 122, 103, 52, 76, 72, 50, 113, 85, 74, 80, 50, 117, 117, 103, 101, 108, 74,
      114, 103, 106, 89, 114, 116, 79, 114, 71, 98, 73, 90, 80, 117, 105, 75, 101, 98, 102, 103,
      120, 116, 110, 88, 100, 104, 52, 122, 120, 50, 114, 69, 108, 68, 101, 76, 110, 107, 86, 104,
      108, 108, 119, 77, 98, 122, 79, 86, 113, 51, 80, 79, 113, 76, 53, 47, 101, 84, 111, 109,
      101, 120, 101, 49, 72, 117, 86, 113, 118, 56, 84, 77, 114, 48, 100, 111, 74, 75, 116, 87,
      110, 74, 86, 74, 121, 65, 78, 102, 84, 48, 97, 122, 81, 114, 66, 65, 122, 73, 113, 84,
      80, 89, 68, 53, 53, 112, 84, 49, 103, 110, 100, 104, 80, 99, 90, 110, 120, 100, 86, 82,
      73, 104, 84, 88, 100, 112, 87, 103, 87, 74, 117, 54, 51, 107, 101, 77, 78, 110, 66, 74,
      107, 57, 77, 80, 108, 55, 55, 90, 66, 72, 49, 112, 71, 112, 108, 67, 99, 98, 90, 54,
      118, 87, 105, 75, 47, 83, 80, 52, 81, 97, 85, 74, 50, 52, 49, 52, 111, 69, 97, 113,
      88, 97, 82, 82, 120, 90, 51, 83, 115, 71, 107, 48, 121, 109, 80, 87, 43, 79, 72, 99,
      117, 101, 70, 69, 53, 120, 83, 87, 79, 80, 75, 66, 72, 99, 102, 72, 68, 83, 89, 78,
      121, 104, 71, 71, 86, 110, 67, 80, 102, 57, 90, 97, 102, 84, 121, 69, 116, 83, 47, 82,
      78, 52, 70, 71, 54, 122, 114, 75, 109, 105, 117, 117, 98, 56, 115, 103, 56, 69, 78, 110,
      82, 108, 78, 86, 89, 122, 66, 122, 118, 79, 108, 66, 76, 81, 100, 105, 105, 97, 97, 72,
      107, 76, 77, 110, 71, 117, 101, 114, 86, 78, 87, 71, 74, 104, 109, 43, 82, 107, 100, 87,
      50, 111, 116, 68, 79, 77, 119, 99, 120, 118, 99, 105, 107, 100, 103, 99, 86, 56, 118, 51,
      65, 85, 121, 71, 116, 90, 110, 67, 117, 89, 83, 111, 109, 73, 83, 78, 120, 80, 90, 106,
      90, 107, 119, 118, 76, 98, 103, 49, 66, 55, 120, 97, 105, 87, 119, 61, 61, 32, 112, 97,
      118, 108, 111, 109, 64, 109, 97, 110, 106, 97, 114, 111>>

\* the certificate of the test test_encode (1856 bytes)
TestEncodeCertificate ==
    <<115, 115, 104, 45, 114, 115, 97, 45, 99, 101, 114, 116, 45, 118, 48, 49, 64, 111, 112, 101,
      110, 115, 115, 104, 46, 99, 111, 109, 32, 65, 65, 65, 65, 72, 72, 78, 122, 97, 67, 49,
      121, 99, 50, 69, 116, 89, 50, 86, 121, 100, 67, 49, 50, 77, 68, 70, 65, 98, 51, 66,
      108, 98, 110, 78, 122, 97, 67, 53, 106, 98, 50, 48, 65, 65, 65, 65, 103, 82, 97, 115,
      107, 55, 108, 87, 51, 119, 118, 56, 54, 89, 104, 102, 86, 87, 66, 100, 109, 48, 119, 74,
      48, 84, 54, 65, 70, 73, 100, 111, 88, 113, 108, 81, 100, 113, 65, 75, 54, 74, 88, 103,
      65, 65, 65, 65, 68, 65, 81, 65, 66, 65, 65, 65, 66, 103, 81, 67, 108, 49, 84, 120,
      113, 88, 106, 52, 66, 77, 121, 103, 115, 48, 48, 112, 90, 116, 102, 114, 115, 84, 104, 80,
      118, 65, 54, 87, 66, 57, 87, 121, 105, 47, 85, 75, 84, 107, 105, 102, 120, 104, 101, 99,
      80, 67, 50, 47, 56, 72, 111, 74, 66, 98, 113, 111, 83, 108, 109, 52, 67, 86, 80, 116,
      47, 104, 76, 107, 100, 83, 98, 74, 69, 82, 85, 67, 65, 57, 55, 100, 52, 79, 65, 51,
      84, 122, 51, 117, 119, 82, 114, 81, 105, 110, 114, 69, 67, 48, 103, 54, 101, 89, 74, 88,
      104, 75, 78, 85, 72, 77, 115, 68, 100, 51, 74, 118, 78, 97, 52, 101, 109, 73, 47, 87,
      65, 112, 52, 54, 105, 80, 52, 97, 74, 47, 85, 87, 57, 108, 71, 87, 49, 89, 65, 51,
      102, 103, 78, 51, 47, 100, 109, 89, 72, 66, 86, 68, 76, 55, 81, 75, 112, 47, 111, 72,
      121, 90, 98, 79, 48, 74, 78, 98, 104, 104, 68, 67, 71, 55, 70, 119, 112, 55, 116, 120,
      97, 87, 107, 65, 83, 87, 52, 71, 77, 68, 66, 74, 74, 105, 81, 116, 112, 76, 101, 47,
      116, 71, 89, 87, 54, 74, 77, 67, 65, 118, 114, 79, 47, 51, 89, 51, 55, 114, 88, 101,
      73, 101, 116, 118, 77, 99, 119, 49, 76, 101, 99, 109, 87, 119, 86, 98, 82, 106, 83, 85,
      76, 113, 109, 83, 99, 80, 75, 89, 97, 43, 110, 52, 85, 110, 119, 70, 103, 105, 115, 100,
      109, 121, 122, 78, 117, 82, 73, 90, 72, 68, 72, 88, 67, 107, 81, 73, 73, 66, 50, 75,
      56, 98, 53, 119, 74, 104, 69, 81, 85, 65, 80, 118, 115, 43, 56, 103, 87, 84, 119, 48,
      48, 77, 89, 121, 99, 65, 70, 80, 100, 103, 106, 118, 47, 67, 82, 74, 106, 55, 77, 49,
      90, 100, 99, 70, 121, 100, 77, 84, 74, 108, 119, 57, 73, 111, 79, 50, 72, 78, 78, 121,
      113, 111, 51, 108, 57, 83, 105, 113, 118, 114, 122, 100, 73, 67, 114, 71, 74, 53, 80, 109,
      97, 97, 107, 81, 112, 90, 77, 101, 99, 111, 115, 86, 87, 47, 114, 101, 102, 74, 77, 75,
      121, 98, 67, 79, 105, 103, 114, 47, 49, 49, 121, 117, 71, 50, 115, 111, 75, 121, 55, 43,
      78, 98, 120, 122, 56, 65, 72, 89, 80, 104, 99, 112, 68, 67, 85, 86, 47, 54, 86, 82,
      70, 109, 82, 86, 48, 67, 89, 116, 56, 113, 87, 119, 69, 84, 113, 69, 57, 110, 112, 87,
      70, 85, 65, 97, 108, 48, 49, 114, 77, 113, 118, 86, 115, 68, 72, 104, 103, 54, 97, 110,
      99, 53, 119, 114, 109, 100, 57, 116, 112, 50, 107, 54, 97, 85, 77, 102, 90, 49, 51, 53,
      110, 98, 86, 109, 108, 81, 116, 90, 121, 108, 107, 86, 121, 76, 107, 78, 118, 89, 65, 73,
      67, 90, 87, 66, 109, 74, 47, 107, 65, 65, 65, 65, 65, 65, 65, 65, 65, 65, 65, 65,
      65, 65, 65, 73, 65, 65, 65, 65, 72, 99, 87, 116, 104, 100, 71, 108, 118, 98, 103, 65,
      65, 65, 66, 81, 65, 65, 65, 65, 81, 98, 87, 70, 112, 98, 105, 53, 120, 97, 50, 70,
      48, 97, 87, 57, 117, 76, 109, 78, 118, 98, 81, 65, 65, 65, 65, 66, 104, 87, 122, 84,
      119, 65, 65, 65, 65, 65, 71, 71, 74, 87, 98, 65, 65, 65, 65, 65, 65, 65, 65, 65,
      65, 65, 65, 65, 65, 65, 65, 65, 65, 65, 65, 71, 88, 65, 65, 65, 65, 66, 51, 78,
      122, 97, 67, 49, 121, 99, 50, 69, 65, 65, 65, 65, 68, 65, 81, 65, 66, 65, 65, 65,
      66, 103, 81, 67, 112, 68, 89, 52, 103, 107, 68, 47, 84, 65, 118, 102, 90, 100, 83, 71,
      108, 121, 109, 103, 99, 49, 110, 106, 67, 104, 51, 47, 84, 99, 121, 111, 101, 51, 116, 53,
      79, 52, 109, 51, 50, 100, 82, 111, 53, 52, 100, 51, 119, 52, 110, 117, 80, 52, 47, 112,
      55, 85, 122, 101, 88, 77, 79, 88, 73, 111, 121, 65, 53, 55, 54, 67, 106, 70, 122, 98,
      103, 47, 102, 66, 119, 72, 104, 120, 111, 111, 82, 99, 88, 113, 117, 83, 65, 53, 76, 111,
      119, 48, 87, 54, 50, 51, 49, 113, 48, 71, 118, 50, 105, 74, 48, 65, 110, 88, 73, 75,
      57, 88, 121, 99, 109, 102, 52, 76, 90, 56, 66, 109, 86, 117, 107, 106, 72, 79, 78, 72,
      50, 113, 75, 66, 88, 99, 98, 73, 119, 113, 111, 122, 65, 109, 78, 116, 53, 48, 83, 120,
      50, 115, 43, 48, 69, 70, 87, 69, 56, 99, 73, 68, 117, 43, 107, 57, 112, 65, 49, 113,
      101, 82, 83, 81, 105, 106, 106, 66, 110, 97, 68, 117, 54, 120, 69, 82, 49, 68, 103, 89,
      70, 74, 97, 55, 110, 112, 55, 107, 89, 115, 65, 117, 115, 107, 55, 51, 56, 82, 105, 79,
      117, 104, 106, 108, 76, 65, 70, 83, 66, 103, 74, 117, 51, 122, 53, 121, 47, 105, 105, 117,
      122, 55, 102, 113, 48, 90, 75, 70, 99, 122, 109, 122, 118, 117, 111, 107, 73, 84, 49, 99,
      49, 67, 108, 97, 88, 116, 79, 102, 75, 118, 110, 106, 113, 74, 85, 101, 119, 113, 69, 110,
      107, 83, 72, 83, 116, 116, 52, 74, 103, 43, 56, 83, 90, 111, 82, 51, 119, 54, 56, 118,
      100, 103, 107, 100, 66, 106, 104, 116, 103, 89, 108, 54, 50, 79, 99, 84, 66, 83, 57, 88,
      116, 103, 68, 110, 43, 84, 113, 102, 101, 117, 56, 117, 84, 65, 69, 66, 97, 98, 50, 88,
      84, 68, 87, 84, 120, 47, 84, 69, 87, 67, 86, 48, 113, 78, 112, 56, 121, 48, 57, 68,
      71, 68, 69, 47, 74, 84, 70, 83, 105, 47, 104, 114, 104, 86, 76, 65, 118, 90, 97, 85,
      66, 73, 113, 51, 90, 67, 119, 98, 67, 52, 120, 97, 47, 111, 98, 84, 74, 117, 109, 78,
      86, 56, 100, 103, 87, 120, 103, 47, 121, 90, 47, 104, 84, 82, 114, 122, 97, 50, 100, 80,
      111, 69, 112, 98, 109, 111, 49, 51, 101, 107, 117, 75, 112, 88, 97, 111, 48, 101, 99, 119,
      50, 54, 102, 71, 67, 76, 121, 76, 73, 65, 55, 119, 66, 89, 66, 113, 114, 103, 54, 47,
      65, 100, 77, 122, 115, 67, 53, 101, 102, 70, 90, 97, 50, 122, 113, 72, 69, 84, 57, 67,
      100, 88, 111, 112, 122, 108, 72, 120, 122, 104, 118, 116, 100, 114, 85, 117, 109, 116, 112, 73,
      79, 121, 54, 76, 89, 112, 48, 55, 117, 69, 98, 90, 78, 98, 76, 77, 65, 65, 65, 71,
      85, 65, 65, 65, 65, 68, 72, 74, 122, 89, 83, 49, 122, 97, 71, 69, 121, 76, 84, 85,
      120, 77, 103, 65, 65, 65, 89, 67, 97, 111, 65, 117, 102, 101, 47, 52, 106, 55, 85, 76,
      100, 100, 53, 56, 49, 57, 88, 105, 56, 116, 89, 111, 111, 70, 110, 105, 72, 48, 76, 53,
      57, 87, 107, 81, 81, 80, 107, 55, 108, 76, 47, 113, 77, 52, 109, 52, 82, 73, 111, 108,
      120, 55, 90, 78, 101, 85, 66, 55, 71, 50, 122, 69, 71, 57, 53, 83, 57, 57, 82, 54,
      74, 102, 107, 103, 79, 105, 84, 85, 113, 77, 98, 114, 85, 50, 89, 85, 65, 105, 47, 108,
      78, 106, 81, 118, 53, 90, 73, 69, 120, 50, 104, 66, 114, 66, 70, 82, 99, 105, 117, 85,
      65, 117, 117, 85, 88, 74, 54, 68, 86, 118, 113, 65, 102, 56, 48, 82, 52, 43, 114, 115,
      47, 55, 104, 103, 114, 117, 69, 119, 109, 56, 99, 103, 98, 102, 52, 57, 48, 89, 108, 117,
      49, 116, 97, 112, 111, 108, 100, 118, 68, 57, 66, 116, 90, 111, 112, 74, 76, 50, 104, 114,
      75, 109, 111, 90, 100, 70, 116, 78, 102, 75, 87, 97, 86, 99, 116, 118, 111, 100, 84, 51,
      117, 43, 51, 87, 83, 55, 50, 78, 108, 119, 51, 55, 53, 100, 66, 122, 55, 86, 104, 103,
      122, 76, 50, 114, 53, 48, 86, 54, 89, 71, 107, 104, 113, 77, 75, 113, 73, 48, 121, 109,
      55, 86, 51, 98, 73, 108, 100, 51, 80, 120, 79, 57, 52, 112, 86, 89, 76, 119, 75, 88,
      52, 49, 55, 43, 53, 67, 85, 54, 119, 122, 67, 99, 101, 75, 103, 84, 114, 119, 68, 67,
      103, 72, 77, 74, 108, 81, 113, 70, 90, 118, 47, 86, 114, 108, 120, 72, 112, 68, 43, 72,
      73, 105, 52, 78, 68, 48, 111, 113, 53, 53, 54, 54, 97, 81, 65, 108, 69, 70, 83, 109,
      51, 70, 117, 100, 106, 47, 81, 51, 105, 86, 65, 105, 87, 85, 81, 113, 70, 116, 103, 65,
      43, 109, 103, 57, 81, 74, 69, 112, 78, 88, 112, 115, 120, 119, 69, 50, 105, 77, 109, 51,
      77, 53, 84, 73, 108, 79, 73, 122, 78, 121, 51, 71, 49, 89, 48, 79, 111, 122, 53, 121,
      74, 114, 101, 85, 75, 102, 111, 113, 103, 110, 66, 82, 115, 85, 52, 85, 79, 79, 47, 115,
      66, 88, 80, 84, 111, 68, 79, 74, 102, 103, 54, 77, 77, 107, 85, 98, 121, 56, 116, 55,
      109, 80, 67, 70, 73, 65, 90, 88, 114, 110, 47, 66, 73, 73, 74, 103, 81, 48, 51, 87,
      66, 49, 73, 47, 105, 102, 79, 86, 103, 121, 119, 57, 75, 116, 122, 83, 89, 73, 69, 78,
      102, 54, 57, 75, 114, 81, 121, 48, 86, 70, 112, 84, 88, 85, 90, 85, 75, 71, 68, 101,
      100, 69, 86, 100, 112, 49, 81, 72, 85, 105, 86, 77, 43, 53, 109, 88, 81, 89, 87, 113,
      66, 101, 54, 104, 82, 68, 55, 100, 84, 72, 55, 77, 89, 78, 76, 50, 54, 104, 109, 56,
      61, 32, 112, 97, 118, 108, 111, 109, 64, 109, 97, 110, 106, 97, 114, 111>>

TestCertificates == {TestDecodeCertificate, TestEncodeCertificate}

\* "ssh-ed25519-cert-v01@openssh.com"
Ed25519CertificateHeader ==
    <<115, 115, 104, 45, 101, 100, 50, 53, 53, 49, 57, 45, 99, 101, 114, 116, 45,
      118, 48, 49, 64, 111, 112, 101, 110, 115, 115, 104, 46, 99, 111, 109>>

\* the wire bytes of the fields of small certificates, written out by hand
NonceWire == <<0, 0, 0, 16>> \o [i \in 1..16 |-> 16 * i - 1]

ExponentWires == { <<0, 0, 0, 3, 1, 0, 1>>, <<0, 0, 0, 1, 3>> }

ModulusWires == { <<0, 0, 0, 3, 0, 143, 1>>, <<0, 0, 0, 2, 123, 5>> }

SerialWires == { <<0, 0, 0, 0, 0, 0, 0, 7>>, <<255, 255, 255, 255, 255, 255, 255, 255>> }

CertTypeWires == { <<0, 0, 0, 1>>, <<0, 0, 0, 2>> }

KeyIdWires == { <<0, 0, 0, 0>>, <<0, 0, 0, 4, 73, 68, 195, 169>> }

PrincipalsWires ==
    { <<0, 0, 0, 0>>, <<0, 0, 0, 11, 0, 0, 0, 1, 97, 0, 0, 0, 2, 98, 99>> }

ValidityWire == <<0, 0, 0, 0, 0, 0, 0, 1>> \o <<0, 0, 0, 1, 0, 0, 0, 0>>

CriticalOptionsWires ==
    { <<0, 0, 0, 0>>,
      <<0, 0, 0, 23, 0, 0, 0, 13, 102, 111, 114, 99, 101, 45, 99, 111, 109, 109, 97,
        110, 100, 0, 0, 0, 2, 108, 115>> }

ExtensionsWires ==
    { <<0, 0, 0, 0>>,
      <<0, 0, 0, 40,
        0, 0, 0, 10, 112, 101, 114, 109, 105, 116, 45, 112, 116, 121, 0, 0, 0, 0,
        0, 0, 0, 14, 112, 101, 114, 109, 105, 116, 45, 117, 115, 101, 114, 45, 114,
        99, 0, 0, 0, 0>> }

ReservedWire == <<0, 0, 0, 0>>

SignatureKeyWire ==
    <<0, 0, 0, 23, 0, 0, 0, 7, 115, 115, 104, 45, 114, 115, 97, 0, 0, 0, 1, 3,
      0, 0, 0, 3, 0, 143, 1>>

SignatureWire == <<0, 0, 0, 2, 222, 173>>

CommentTokens == { <<>>, <<117, 64, 104>>, <<117, 64, 104, 10>> }

\* the 14 fields of the binary body, in order
BodyWire(e, n, serial, ct, kid, pr, co, ex, reserved, sk) ==
    <<0, 0, 0, 28>> \o RSA_CERTIFICATE_HEADER \o NonceWire \o e \o n \o serial \o ct
      \o kid \o pr \o ValidityWire \o co \o ex \o reserved \o sk \o SignatureWire

\* <header> SP <base64-body> SP <comment>
Envelope(body, comment) ==
    RSA_CERTIFICATE_HEADER \o <<32>> \o Base64Encode(body) \o <<32>> \o comment

\* small certificates of the format: canonical base64, RSA keys with
\* minimal non-zero e and n, UTF-8 strings, known option and extension
\* names, an empty reserved field, a comment without a space
SmallCertificates ==
    { Envelope(BodyWire(e, n, serial, ct, kid, pr, co, ex, ReservedWire,
                        SignatureKeyWire), comment) :
        e \in ExponentWires, n \in ModulusWires, serial \in SerialWires,
        ct \in CertTypeWires, kid \in KeyIdWires, pr \in PrincipalsWires,
        co \in CriticalOptionsWires, ex \in ExtensionsWires,
        comment \in CommentTokens }

ValidCertificates == TestCertificates \cup SmallCertificates

\* one small certificate and its variations
PlainBody ==
    BodyWire(<<0, 0, 0, 1, 3>>, <<0, 0, 0, 2, 123, 5>>, <<0, 0, 0, 0, 0, 0, 0, 7>>,
             <<0, 0, 0, 1>>, <<0, 0, 0, 0>>, <<0, 0, 0, 0>>, <<0, 0, 0, 0>>,
             <<0, 0, 0, 0>>, ReservedWire, SignatureKeyWire)

Varied(e, ct, kid, co, ex, reserved, sk) ==
    BodyWire(e, <<0, 0, 0, 2, 123, 5>>, <<0, 0, 0, 0, 0, 0, 0, 7>>, ct, kid,
             <<0, 0, 0, 0>>, co, ex, reserved, sk)

\* inputs outside the format
OtherTexts ==
    { \* another header, only a header, base64 "!!!!", a truncated body
      Ed25519CertificateHeader \o <<32>> \o Base64Encode(PlainBody) \o <<32>>,
      <<32>> \o Base64Encode(PlainBody) \o <<32>>,
      RSA_CERTIFICATE_HEADER,
      RSA_CERTIFICATE_HEADER \o <<32, 33, 33, 33, 33, 32>>,
      Envelope(Take(PlainBody, 40), <<>>),
      \* inner key type "ssh-rsa"
      Envelope(<<0, 0, 0, 7>> \o SshRsaName \o Drop(PlainBody, 32), <<>>),
      \* e written as the empty mpint, e = 1
      Envelope(Varied(<<0, 0, 0, 0>>, <<0, 0, 0, 1>>, <<0, 0, 0, 0>>, <<0, 0, 0, 0>>,
                      <<0, 0, 0, 0>>, ReservedWire, SignatureKeyWire), <<>>),
      Envelope(Varied(<<0, 0, 0, 1, 1>>, <<0, 0, 0, 1>>, <<0, 0, 0, 0>>, <<0, 0, 0, 0>>,
                      <<0, 0, 0, 0>>, ReservedWire, SignatureKeyWire), <<>>),
      \* cert_type 3
      Envelope(Varied(<<0, 0, 0, 1, 3>>, <<0, 0, 0, 3>>, <<0, 0, 0, 0>>, <<0, 0, 0, 0>>,
                      <<0, 0, 0, 0>>, ReservedWire, SignatureKeyWire), <<>>),
      \* key id that is not UTF-8
      Envelope(Varied(<<0, 0, 0, 1, 3>>, <<0, 0, 0, 1>>, <<0, 0, 0, 1, 255>>,
                      <<0, 0, 0, 0>>, <<0, 0, 0, 0>>, ReservedWire, SignatureKeyWire),
               <<>>),
      \* critical option "foo", extension "foo"
      Envelope(Varied(<<0, 0, 0, 1, 3>>, <<0, 0, 0, 1>>, <<0, 0, 0, 0>>,
                      <<0, 0, 0, 11, 0, 0, 0, 3, 102, 111, 111, 0, 0, 0, 0>>,
                      <<0, 0, 0, 0>>, ReservedWire, SignatureKeyWire), <<>>),
      Envelope(Varied(<<0, 0, 0, 1, 3>>, <<0, 0, 0, 1>>, <<0, 0, 0, 0>>, <<0, 0, 0, 0>>,
                      <<0, 0, 0, 11, 0, 0, 0, 3, 102, 111, 111, 0, 0, 0, 0>>,
                      ReservedWire, SignatureKeyWire), <<>>),
      \* a reserved field of one byte
      Envelope(Varied(<<0, 0, 0, 1, 3>>, <<0, 0, 0, 1>>, <<0, 0, 0, 0>>, <<0, 0, 0, 0>>,
                      <<0, 0, 0, 0>>, <<0, 0, 0, 1, 9>>, SignatureKeyWire), <<>>),
      \* signature key "ssh-dss"
      Envelope(Varied(<<0, 0, 0, 1, 3>>, <<0, 0, 0, 1>>, <<0, 0, 0, 0>>, <<0, 0, 0, 0>>,
                      <<0, 0, 0, 0>>, ReservedWire,
                      <<0, 0, 0, 23, 0, 0, 0, 7, 115, 115, 104, 45, 100, 115, 115,
                        0, 0, 0, 1, 3, 0, 0, 0, 3, 0, 143, 1>>), <<>>),
      \* a comment that is not UTF-8, a comment with a space
      Envelope(PlainBody, <<255>>),
      Envelope(PlainBody, <<117, 32, 104>>) }

(***************************************************************************)
(* The certificate codec as a state machine: a text is received, decoded,  *)
(* and the decoded certificate is encoded again.                           *)
(***************************************************************************)
\* inputs whose first token is not the header: another header before
\* "!!!!", an empty token before "!!!!", a token that is not UTF-8, a cut
\* UTF-8 sequence, "Ssh-rsa-cert-v01@openssh.com", the header followed by a
\* line feed, the header without its last letter, "é"
HeaderTexts ==
    { Ed25519CertificateHeader \o <<32, 33, 33, 33, 33, 32>>,
      <<32, 33, 33, 33, 33>>,
      <<255>> \o RSA_CERTIFICATE_HEADER \o <<32>> \o Base64Encode(PlainBody) \o <<32>>,
      <<195>>,
      <<83>> \o Drop(RSA_CERTIFICATE_HEADER, 1) \o <<32>> \o Base64Encode(PlainBody)
        \o <<32>>,
      RSA_CERTIFICATE_HEADER \o <<10, 65, 65, 65, 65>>,
      Take(RSA_CERTIFICATE_HEADER, 27),
      <<195, 169>> \o <<32>> \o Base64Encode(PlainBody) }

\* validity windows on the wire: valid_after = 2^32 and valid_before = 1,
\* and valid_after = valid_before = 1
OtherValidityWires ==
    { <<0, 0, 0, 1, 0, 0, 0, 0>> \o <<0, 0, 0, 0, 0, 0, 0, 1>>,
      <<0, 0, 0, 0, 0, 0, 0, 1>> \o <<0, 0, 0, 0, 0, 0, 0, 1>> }

\* small certificates with these validity windows
ValidityTexts ==
    { Envelope(<<0, 0, 0, 28>> \o RSA_CERTIFICATE_HEADER \o NonceWire
                 \o <<0, 0, 0, 1, 3>> \o <<0, 0, 0, 2, 123, 5>>
                 \o <<0, 0, 0, 0, 0, 0, 0, 7>> \o ct \o <<0, 0, 0, 0>> \o <<0, 0, 0, 0>>
                 \o validity \o <<0, 0, 0, 0>> \o <<0, 0, 0, 0>> \o ReservedWire
                 \o SignatureKeyWire \o SignatureWire, comment) :
        validity \in OtherValidityWires, ct \in CertTypeWires,
        comment \in CommentTokens }

\* the caller's bytes: cert.to_vec().as_slice()
Receive ==
    /\ certIn = <<>>
    /\ certRes.status = "None"
    /\ \E text \in ValidCertificates \cup OtherTexts \cup HeaderTexts
                    \cup ValidityTexts : certIn' = text
    /\ UNCHANGED <<certRes, certOut, wireVars, builderVars>>

\* SshCertificate::decode
DoCertDecode ==
    /\ certIn # <<>>
    /\ certRes.status = "None"
    /\ certRes' = CertDecode(certIn)
    /\ UNCHANGED <<certIn, certOut, wireVars, builderVars>>

\* SshCertificate::encode of the decoded certificate
DoCertEncode ==
    /\ certRes.status = "Ok"
    /\ certOut.status = "None"
    /\ certOut' = [status |-> "Ok", bytes |-> CertEncode(Unwrap(certRes.cert))]
    /\ UNCHANGED <<certIn, certRes, wireVars, builderVars>>

InitCert == WireIdle /\ BuilderIdle /\ CertIdle

NextCert ==
    \/ Receive
    \/ DoCertDecode
    \/ DoCertEncode

SpecCert == InitCert /\ [][NextCert]_vars

ForceCommandName == <<102, 111, 114, 99, 101, 45, 99, 111, 109, 109, 97, 110, 100>>

SourceAddressName == <<115, 111, 117, 114, 99, 101, 45, 97, 100, 100, 114, 101, 115, 115>>

VerifyRequiredName ==
    <<118, 101, 114, 105, 102, 121, 45, 114, 101, 113, 117, 105, 114, 101, 100>>

NoTouchRequiredName ==
    <<110, 111, 45, 116, 111, 117, 99, 104, 45, 114, 101, 113, 117, 105, 114, 101, 100>>

PermitX11ForwardingName ==
    <<112, 101, 114, 109, 105, 116, 45, 88, 49, 49, 45, 102, 111, 114, 119, 97, 114,
      100, 105, 110, 103>>

PermitAgentForwardingName ==
    <<112, 101, 114, 109, 105, 116, 45, 97, 103, 101, 110, 116, 45, 102, 111, 114,
      119, 97, 114, 100, 105, 110, 103>>

PermitPortForwardingName ==
    <<112, 101, 114, 109, 105, 116, 45, 112, 111, 114, 116, 45, 102, 111, 114, 119,
      97, 114, 100, 105, 110, 103>>

PermitPtyName == <<112, 101, 114, 109, 105, 116, 45, 112, 116, 121>>

PermitUserRcName == <<112, 101, 114, 109, 105, 116, 45, 117, 115, 101, 114, 45, 114, 99>>

CriticalOptionNames == {ForceCommandName, SourceAddressName, VerifyRequiredName}

ExtensionNames ==
    {NoTouchRequiredName, PermitX11ForwardingName, PermitAgentForwardingName,
     PermitPortForwardingName, PermitPtyName, PermitUserRcName}

\* names of no option and no extension: "Force-command", "PERMIT-PTY",
\* "permit-x11-forwarding", "permit-pt", "permit-pty ", "foo" and ""
OtherNames ==
    { <<70, 111, 114, 99, 101, 45, 99, 111, 109, 109, 97, 110, 100>>,
      <<80, 69, 82, 77, 73, 84, 45, 80, 84, 89>>,
      <<112, 101, 114, 109, 105, 116, 45, 120, 49, 49, 45, 102, 111, 114, 119, 97, 114,
        100, 105, 110, 103>>,
      <<112, 101, 114, 109, 105, 116, 45, 112, 116>>,
      <<112, 101, 114, 109, 105, 116, 45, 112, 116, 121, 32>>,
      <<102, 111, 111>>,
      <<>> }

TypeNames == CriticalOptionNames \cup ExtensionNames \cup OtherNames

\* the data of an element: "", "ls" and "é"
ElementData == { <<>>, <<108, 115>>, <<195, 169>> }

\* an element on the wire: string name, string data
ElementWire(name, data) == WriteU32(Len(name)) \o name \o WriteU32(Len(data)) \o data

ElementWires == { ElementWire(name, data) : name \in TypeNames, data \in ElementData }

\* elements cut after the name
CutElementWires == { WriteU32(Len(name)) \o name : name \in TypeNames }

SshCriticalOptionTypes == {"ForceCommand", "SourceAddress", "VerifyRequired"}

SshExtensionTypes ==
    {"NoTouchRequired", "PermitX11Forwarding", "PermitAgentForwarding",
     "PermitPortForwarding", "PermitPty", "PermitUserPc"}

\* the values handed to SshCriticalOption::encode and SshExtension::encode
CriticalOptions ==
    { [option_type |-> ty, data |-> FromUtf8Lossy(d)] :
        ty \in SshCriticalOptionTypes, d \in ElementData }

Extensions ==
    { [extension_type |-> ty, data |-> FromUtf8Lossy(d)] :
        ty \in SshExtensionTypes, d \in ElementData }

\* a string on the wire
StringWire(b) == WriteU32(Len(b)) \o b

RECURSIVE JoinFrom(_, _)
\* the byte strings ws[i], ws[i+1], ... one after the other
JoinFrom(ws, i) == IF i > Len(ws) THEN <<>> ELSE ws[i] \o JoinFrom(ws, i + 1)

Join(ws) == Bind(ws, LAMBDA v : JoinFrom(v, 1))

\* a list on the wire: the length prefix of the payload, the payload, and
\* what follows the list in the enclosing stream
ListWire(payload, tail) == WriteU32(Len(payload)) \o payload \o tail

\* the elements of the lists: principals "a", "bc" and ""; options and
\* extensions of a known name and of the name "foo"
PrincipalItems == { <<97>>, <<98, 99>>, <<>> }

CriticalOptionItems ==
    { <<ForceCommandName, <<108, 115>>>>, <<VerifyRequiredName, <<>>>>,
      <<<<102, 111, 111>>, <<108, 115>>>> }

ExtensionItems ==
    { <<PermitPtyName, <<>>>>, <<PermitUserRcName, <<108, 115>>>>,
      <<<<102, 111, 111>>, <<>>>> }

\* bytes at the end of a payload that are no complete element (none, a cut
\* length prefix, a cut string)
Residuals == { <<>>, <<0>>, <<0, 0, 0>>, <<0, 0, 0, 2, 97>> }

\* what follows a list or a certificate type in the enclosing stream
Tails == { <<>>, <<0, 0, 0, 1>> }

PrincipalsPayload(items) == Join([i \in 1..Len(items) |-> StringWire(items[i])])

ElementsPayload(items) ==
    Join([i \in 1..Len(items) |-> ElementWire(items[i][1], items[i][2])])

PrincipalsListWires ==
    { ListWire(PrincipalsPayload(items) \o r, t) :
        items \in SeqsUpTo(PrincipalItems, 2), r \in Residuals, t \in Tails }

CriticalOptionsListWires ==
    { ListWire(ElementsPayload(items) \o r, t) :
        items \in SeqsUpTo(CriticalOptionItems, 2), r \in Residuals, t \in Tails }

ExtensionsListWires ==
    { ListWire(ElementsPayload(items) \o r, t) :
        items \in SeqsUpTo(ExtensionItems, 2), r \in Residuals, t \in Tails }

\* a list whose length prefix promises more than the stream holds
CutListWires == { <<0, 0, 0, 9, 0, 0, 0, 1, 97>>, <<0, 0, 0>> }

\* 32-bit values on the wire: 0, 1, 2, 3, 256, 2^24 + 1, 2^32 - 1, and a cut one
U32Values ==
    { <<0, 0, 0, 0>>, <<0, 0, 0, 1>>, <<0, 0, 0, 2>>, <<0, 0, 0, 3>>, <<0, 0, 1, 0>>,
      <<1, 0, 0, 1>>, <<2, 0, 0, 0>>, <<255, 255, 255, 255>> }

U32Wires == { v \o t : v \in U32Values, t \in Tails } \cup { <<0, 0, 1>> }

TypedBuffers ==
    ElementWires \cup CutElementWires \cup PrincipalsListWires
      \cup CriticalOptionsListWires \cup ExtensionsListWires \cup CutListWires
      \cup U32Wires

\* the lists handed to encode
PrincipalValueLists == SeqsUpTo({ <<97>>, <<233>>, <<>> }, 2)

(***************************************************************************)
(* The typed-field specification: one Cursor is filled, by an encode call  *)
(* or from raw bytes, and one decode call reads from it.                   *)
(***************************************************************************)
\* T::decode(&mut cursor) for a T with a typed error: r is the pure result
\* on the unread bytes.  After an error the position of the Cursor is
\* unspecified; any suffix of the unread bytes may be left.
DecodedTyped(op, r) ==
    /\ UNCHANGED <<builderVars, certVars>>
    /\ last' = op
    /\ before' = stream
    /\ nread' = nread + 1
    /\ origin' = origin
    /\ res' = [status |-> r.status, err |-> r.err, detail |-> r.detail,
               value |-> r.value]
    /\ IF r.status = "Ok"
       THEN stream' = r.rest
       ELSE \E k \in 0..Len(stream) : stream' = Drop(stream, k)

\* the Cursor is filled and nothing was read from it
Fresh == last # "None" /\ nread = 0

DoCursorTyped == \E raw \in TypedBuffers :
    /\ Unfilled
    /\ CursorNew(raw)

DoCriticalOptionEncode == \E o \in CriticalOptions :
    /\ Unfilled
    /\ Encoded("CriticalOptionEncode", o, CriticalOptionEncode(o))

DoCriticalOptionDecode ==
    /\ Fresh
    /\ DecodedTyped("CriticalOptionDecode", CriticalOptionDecode(stream))

DoExtensionEncode == \E x \in Extensions :
    /\ Unfilled
    /\ Encoded("ExtensionEncode", x, ExtensionEncode(x))

DoExtensionDecode ==
    /\ Fresh
    /\ DecodedTyped("ExtensionDecode", ExtensionDecode(stream))

DoPrincipalsEncode == \E xs \in PrincipalValueLists :
    /\ Unfilled
    /\ Encoded("PrincipalsEncode", xs, VecEncode("String", xs))

DoPrincipalsDecode ==
    /\ Fresh
    /\ DecodedTyped("PrincipalsDecode", VecDecode("String", stream))

DoCriticalOptionsEncode == \E xs \in SeqsUpTo(CriticalOptions, 1) \cup CriticalOptionLists :
    /\ Unfilled
    /\ Encoded("CriticalOptionsEncode", xs, VecEncode("CriticalOption", xs))

DoCriticalOptionsDecode ==
    /\ Fresh
    /\ DecodedTyped("CriticalOptionsDecode", VecDecode("CriticalOption", stream))

DoExtensionsEncode == \E xs \in SeqsUpTo(Extensions, 1) \cup ExtensionLists :
    /\ Unfilled
    /\ Encoded("ExtensionsEncode", xs, VecEncode("Extension", xs))

DoExtensionsDecode ==
    /\ Fresh
    /\ DecodedTyped("ExtensionsDecode", VecDecode("Extension", stream))

DoCertTypeEncode == \E c \in CertTypes :
    /\ Unfilled
    /\ Encoded("CertTypeEncode", c, SshCertTypeEncode(c))

DoCertTypeDecode ==
    /\ Fresh
    /\ DecodedTyped("CertTypeDecode", SshCertTypeDecode(stream))

InitTyped == WireIdle /\ BuilderIdle /\ CertIdle

NextTyped ==
    \/ DoCursorTyped
    \/ DoCriticalOptionEncode
    \/ DoCriticalOptionDecode
    \/ DoExtensionEncode
    \/ DoExtensionDecode
    \/ DoPrincipalsEncode
    \/ DoPrincipalsDecode
    \/ DoCriticalOptionsEncode
    \/ DoCriticalOptionsDecode
    \/ DoExtensionsEncode
    \/ DoExtensionsDecode
    \/ DoCertTypeEncode
    \/ DoCertTypeDecode

SpecTyped == InitTyped /\ [][NextTyped]_vars

(***************************************************************************)
(* Properties of the typed fields (checked under SpecTyped).               *)
(***************************************************************************)
\* the bytes the last decode call consumed
Consumed == Take(before, Len(before) - Len(stream))

\* C11: decoding a critical-option element whose type name is not one of
\* force-command, source-address, verify-required yields
\* UnsupportedCriticalOptionType carrying that name, and decoding an
\* extension element whose type name is not one of the six extension names
\* yields UnsupportedExtensionType carrying that name; the match is
\* case-sensitive, and a known name is written back as the identical string
\* by encode.
C11_EnumExhaustiveness ==
    origin.op = "CursorNew" =>
        \A name \in TypeNames, data \in ElementData :
            origin.arg = ElementWire(name, data) =>
                /\ last = "CriticalOptionDecode" =>
                      IF name \in CriticalOptionNames
                      THEN /\ res.status = "Ok"
                           /\ CriticalOptionTypeToString(res.value.option_type) = name
                           /\ CriticalOptionEncode(res.value) = origin.arg
                      ELSE /\ res.status = "Err"
                           /\ res.err = "UnsupportedCriticalOptionType"
                           /\ res.detail = name
                /\ last = "ExtensionDecode" =>
                      IF name \in ExtensionNames
                      THEN /\ res.status = "Ok"
                           /\ ExtensionTypeToString(res.value.extension_type) = name
                           /\ ExtensionEncode(res.value) = origin.arg
                      ELSE /\ res.status = "Err"
                           /\ res.err = "UnsupportedExtensionType"
                           /\ res.detail = name

\* "permit-x11-forwarding" is no extension name
C11_Witness ==
    /\ origin.op = "CursorNew"
    /\ last = "ExtensionDecode"
    /\ res.status = "Err"
    /\ res.err = "UnsupportedExtensionType"
    /\ res.detail =
          <<112, 101, 114, 109, 105, 116, 45, 120, 49, 49, 45, 102, 111, 114, 119, 97,
            114, 100, 105, 110, 103>>

\* the first space-delimited token of the received text
FirstToken == ReadTillWhitespace(certIn).token

DecodeCalled == certRes.status # "None"

\* C12 as stated: SshCertificate::decode of an input whose first
\* space-delimited token is not exactly the header fails with
\* UnsupportedCertificateType carrying that token.
C12_HeaderRejection ==
    (DecodeCalled /\ FirstToken # RSA_CERTIFICATE_HEADER) =>
        /\ certRes.status = "Err"
        /\ certRes.err = "UnsupportedCertificateType"
        /\ AsBytes(certRes.detail) = FirstToken

\* C12 amended: SshCertificate::decode of an input whose first
\* space-delimited token is not exactly the header fails before any of the
\* base64 body is decoded: with UnsupportedCertificateType carrying that
\* token when the token is well-formed UTF-8, with FromUtf8Error when it
\* is not.
C12_HeaderRejectionUtf8 ==
    (DecodeCalled /\ FirstToken # RSA_CERTIFICATE_HEADER) =>
        /\ certRes.status = "Err"
        /\ certRes.cert = None
        /\ IF Utf8Valid(FirstToken)
           THEN /\ certRes.err = "UnsupportedCertificateType"
                /\ AsBytes(certRes.detail) = FirstToken
           ELSE certRes.err = "FromUtf8Error"

\* another header in front of a body that is no base64
C12_Witness ==
    /\ DecodeCalled
    /\ certIn = Ed25519CertificateHeader \o <<32, 33, 33, 33, 33, 32>>
    /\ certRes.err = "UnsupportedCertificateType"
    /\ certRes.detail = Ed25519CertificateHeader

(***************************************************************************)
(* ApplicationTag<V, T> (picky-asn1-der/src/application_tag.rs) with       *)
(* V = Utf8StringAsn1.  A value is the bytes of its string.                *)
(***************************************************************************)
\* Tag::application_constructed(T).inner(): class application (01),
\* constructed (1), number T
ApplicationConstructed(T) == 64 + 32 + T

\* Tag::is_application: bits 7..6 of the tag byte are 01
IsApplication(tag) == tag \div 64 = 1

\* Tag::number: bits 4..0 of the tag byte
TagNumber(tag) == tag % 32

\* Length::serialize: short form below 0x80, otherwise 0x80|n and the n
\* big-endian bytes of the length
LengthSerialize(len) ==
    IF len < 128 THEN <<len>>
    ELSE IF len < 256 THEN <<129, len>>
    ELSE IF len < 65536 THEN <<130, len \div 256, len % 256>>
    ELSE <<131, len \div 65536, (len \div 256) % 256, len % 256>>

\* Length::deserialize on the bytes s: [status, value, rest]
LengthDeserialize(s) ==
    IF Len(s) = 0 THEN [status |-> "Err", value |-> 0, rest |-> <<>>]
    ELSE IF s[1] < 128 THEN [status |-> "Ok", value |-> s[1], rest |-> Drop(s, 1)]
    ELSE IF s[1] = 129 /\ Len(s) >= 2
    THEN [status |-> "Ok", value |-> s[2], rest |-> Drop(s, 2)]
    ELSE IF s[1] = 130 /\ Len(s) >= 3
    THEN [status |-> "Ok", value |-> s[2] * 256 + s[3], rest |-> Drop(s, 3)]
    ELSE IF s[1] = 131 /\ Len(s) >= 4
    THEN [status |-> "Ok", value |-> s[2] * 65536 + s[3] * 256 + s[4],
          rest |-> Drop(s, 4)]
    ELSE [status |-> "Err", value |-> 0, rest |-> <<>>]

\* well-formed UTF-8 (strings of ASCII bytes are, whatever their length)
Utf8StringValid(b) == (\A i \in 1..Len(b) : b[i] < 128) \/ Utf8Valid(b)

\* the DER encoding of a Utf8StringAsn1: tag 0x0C, length, bytes
Utf8StringSerialize(str) == <<12>> \o LengthSerialize(Len(str)) \o str

\* the DER decoding of a Utf8StringAsn1 from the bytes s, all of them
Utf8StringDeserialize(s) ==
    IF Len(s) = 0 \/ s[1] # 12 THEN [status |-> "Err", value |-> <<>>]
    ELSE Bind(LengthDeserialize(Drop(s, 1)), LAMBDA len :
            IF len.status # "Ok" \/ Len(len.rest) # len.value
            THEN [status |-> "Err", value |-> <<>>]
            ELSE IF ~Utf8StringValid(len.rest)
            THEN [status |-> "Err", value |-> <<>>]
            ELSE [status |-> "Ok", value |-> len.rest])

\* ApplicationTag::serialize with a primitive tag byte
ApplicationTagSerializeMutPrimitive(value, T) ==
    Bind(Utf8StringSerialize(value), LAMBDA buff :
        <<64 + T>> \o LengthSerialize(Len(buff)) \o buff)

\* Serialize for ApplicationTag<V, T>: the inner value is serialized to
\* buff; the tag byte, the length of buff and buff are written
ApplicationTagSerialize(value, T) ==
    Bind(Utf8StringSerialize(value), LAMBDA buff :
        <<ApplicationConstructed(T)>> \o LengthSerialize(Len(buff)) \o buff)

\* Deserialize for ApplicationTag<V, T> that does not compare the number
ApplicationTagDeserializeMutAnyNumber(s, T) ==
    IF Len(s) = 0 THEN [status |-> "Err", value |-> <<>>]
    ELSE IF ~IsApplication(s[1]) THEN [status |-> "Err", value |-> <<>>]
    ELSE Bind(LengthDeserialize(Drop(s, 1)), LAMBDA len :
            IF len.status # "Ok" \/ Len(len.rest) # len.value
            THEN [status |-> "Err", value |-> <<>>]
            ELSE Utf8StringDeserialize(len.rest))

\* Deserialize for ApplicationTag<V, T> (visit_seq): the next tag is
\* peeked and must be of class application with number T; the inner value
\* is then decoded
ApplicationTagDeserialize(s, T) ==
    IF Len(s) = 0 THEN [status |-> "Err", value |-> <<>>]
    ELSE IF ~IsApplication(s[1]) THEN [status |-> "Err", value |-> <<>>]
    ELSE IF TagNumber(s[1]) # T THEN [status |-> "Err", value |-> <<>>]
    ELSE Bind(LengthDeserialize(Drop(s, 1)), LAMBDA len :
            IF len.status # "Ok" \/ Len(len.rest) # len.value
            THEN [status |-> "Err", value |-> <<>>]
            ELSE Utf8StringDeserialize(len.rest))

\* "example.com"
ExampleCom == <<101, 120, 97, 109, 112, 108, 101, 46, 99, 111, 109>>

\* expected_raw of the test test_application_tag
ExpectedRaw == <<106, 13, 12, 11>> \o ExampleCom

\* strings of 0, 125, 126, 127, 128, 253, 254 and 256 bytes, and "é"
TagStrings ==
    { ExampleCom, <<195, 169>> }
      \cup { [i \in 1..n |-> 97] : n \in {0, 125, 126, 127, 128, 253, 254, 256} }

\* the T of ApplicationTag<V, T>
TagNumbers == {0, 10, 30}

\* the tag bytes of raw inputs: application constructed 10 and 11,
\* application primitive 10, universal 10 (constructed), context 10,
\* private 10, universal UTF8String
RawTagBytes == {106, 107, 74, 42, 170, 234, 12}

\* raw inputs of from_bytes: a tag byte in front of a well-formed or a cut
\* inner value, a cut header, nothing
TagBuffers ==
    { <<tag>> \o body : tag \in RawTagBytes,
                        body \in { <<13>> \o Utf8StringSerialize(ExampleCom),
                                   <<13, 12, 11, 101>>,
                                   <<2, 12, 0>> } }
      \cup { ExpectedRaw, <<106>>, <<>> }

(***************************************************************************)
(* The tag specification: bytes come from to_vec or from the caller, and   *)
(* from_bytes reads them as an ApplicationTag<Utf8StringAsn1, T>.          *)
(***************************************************************************)
\* crate::to_vec(&ApplicationTag::<_, T>::from(value))
DoApplicationTagSerialize == \E value \in TagStrings, T \in TagNumbers :
    /\ Unfilled
    /\ Encoded("ApplicationTagSerialize", [value |-> value, tag |-> T],
               ApplicationTagSerialize(value, T))

\* the caller's bytes
DoTagBytes == \E raw \in TagBuffers :
    /\ Unfilled
    /\ CursorNew(raw)

\* crate::from_bytes::<ApplicationTag<Utf8StringAsn1, T>>(&bytes)
DoApplicationTagDeserialize == \E T \in TagNumbers :
    /\ Fresh
    /\ last' = "ApplicationTagDeserialize"
    /\ before' = stream
    /\ nread' = nread + 1
    /\ res' = [status |-> ApplicationTagDeserialize(stream, T).status,
               value |-> ApplicationTagDeserialize(stream, T).value,
               tag |-> T]
    /\ UNCHANGED <<stream, origin, builderVars, certVars>>

InitTag == WireIdle /\ BuilderIdle /\ CertIdle

NextTag ==
    \/ DoApplicationTagSerialize
    \/ DoTagBytes
    \/ DoApplicationTagDeserialize

SpecTag == InitTag /\ [][NextTag]_vars

(***************************************************************************)
(* Properties of ApplicationTag (checked under SpecTag).                   *)
(***************************************************************************)
\* the DER length of a value below 2^16
DerLength(n) ==
    IF n < 128 THEN <<n>>
    ELSE IF n < 256 THEN <<128 + 1, n>>
    ELSE <<128 + 2, n \div 256, n % 256>>

\* C13: for a tag number T in 0..30, serialization emits one tag byte
\* 0b0110_0000 | T, then the DER length of the inner value's own DER
\* encoding (short form below 0x80, otherwise 0x80|n and n big-endian
\* length bytes), then the inner DER bytes; Utf8String("example.com") with
\* T = 10 gives [106, 13, 12, 11, 'e','x','a','m','p','l','e','.','c','o','m'].
C13_ApplicationTagEncoding ==
    last = "ApplicationTagSerialize" =>
        /\ stream = <<96 + origin.arg.tag>>
                      \o DerLength(Len(Utf8StringSerialize(origin.arg.value)))
                      \o Utf8StringSerialize(origin.arg.value)
        /\ (origin.arg.value = ExampleCom /\ origin.arg.tag = 10) =>
              stream = <<106, 13, 12, 11, 101, 120, 97, 109, 112, 108, 101, 46, 99,
                         111, 109>>

\* a string of 254 bytes: its DER encoding has 257 bytes, a long-form
\* length of two bytes
C13_Witness ==
    /\ last = "ApplicationTagSerialize"
    /\ Len(origin.arg.value) = 254
    /\ origin.arg.tag = 30
    /\ Take(stream, 4) = <<126, 130, 1, 1>>


\* C17: deserialization of an ApplicationTag with number T succeeds only
\* when the next tag has class application and number T, and then returns
\* the inner value decoded by the DER decoder, so that reading the encoding
\* of ApplicationTag::from(v) gives a value equal to it; a tag of another
\* class or with another number gives an error and no value.
C17_ApplicationTagDecoding ==
    last = "ApplicationTagDeserialize" =>
        /\ res.status = "Ok" =>
              /\ Len(before) > 0
              /\ before[1] \div 64 = 1
              /\ before[1] % 32 = res.tag
              /\ Utf8StringDeserialize(LengthDeserialize(Drop(before, 1)).rest).status
                    = "Ok"
              /\ res.value
                    = Utf8StringDeserialize(LengthDeserialize(Drop(before, 1)).rest).value
        /\ (origin.op = "ApplicationTagSerialize" /\ origin.arg.tag = res.tag) =>
              /\ res.status = "Ok"
              /\ res.value = origin.arg.value
        /\ (Len(before) > 0 /\ (before[1] \div 64 # 1 \/ before[1] % 32 # res.tag)) =>
              /\ res.status = "Err"
              /\ res.value = <<>>

\* the encoding of "example.com" under tag 10 was read back with T = 10
C17_Witness ==
    /\ last = "ApplicationTagDeserialize"
    /\ origin.op = "ApplicationTagSerialize"
    /\ origin.arg = [value |-> ExampleCom, tag |-> 10]
    /\ res = [status |-> "Ok", value |-> ExampleCom, tag |-> 10]

\* a tag of class application with another number was refused
C17_WitnessRefused ==
    /\ last = "ApplicationTagDeserialize"
    /\ origin.op = "CursorNew"
    /\ before[1] = 107
    /\ res = [status |-> "Err", value |-> <<>>, tag |-> 10]


\* C14: the decode operations of Mpint, SshString and ByteArray return, for
\* every byte input, either the decoded value or an Io error; none panics,
\* also not on a frame whose length is 0.
C14_PrimitiveDecodeTotality ==
    last \in {"MpintDecode", "SshStringDecode", "ByteArrayDecode"} =>
        res.status \in {"Ok", "Io"}


(***************************************************************************)
(* Properties of the typed lists (checked under SpecTyped).                *)
(***************************************************************************)
\* the list decode operations and the kind of their elements
ListDecodes == {"PrincipalsDecode", "CriticalOptionsDecode", "ExtensionsDecode"}

ElementKind(op) ==
    IF op = "PrincipalsDecode" THEN "String"
    ELSE IF op = "CriticalOptionsDecode" THEN "CriticalOption"
    ELSE "Extension"

\* the number of framed strings an element of the kind is made of
StringsPerElement(kind) == IF kind = "String" THEN 1 ELSE 2

RECURSIVE CompleteStrings(_)
\* the bytes p are a sequence of complete framed strings: their number, or
\* -1 when bytes are left that do not form one
CompleteStrings(p) ==
    IF Len(p) = 0 THEN 0
    ELSE IF ~FrameOf(p).ok THEN -1
    ELSE IF CompleteStrings(FrameOf(p).rest) = -1 THEN -1
    ELSE 1 + CompleteStrings(FrameOf(p).rest)

\* the payload p is made of complete elements of the kind
CompleteElements(kind, p) ==
    /\ CompleteStrings(p) # -1
    /\ CompleteStrings(p) % StringsPerElement(kind) = 0

\* C15: decoding a list (principals, critical options, extensions) takes
\* from the enclosing stream exactly the 4-byte length prefix and the outer
\* payload, reads elements only within that payload, returns them in wire
\* order, and fails with an error when the payload leaves bytes that do not
\* form a complete element; an empty payload gives the empty list.
C15_TypedListBoundary ==
    (last \in ListDecodes /\ FrameOf(before).ok) =>
        /\ res.status = "Ok" =>
              /\ stream = FrameOf(before).rest
              /\ Consumed = <<0, 0, 0, Len(FrameOf(before).payload)>>
                              \o FrameOf(before).payload
              /\ CompleteElements(ElementKind(last), FrameOf(before).payload)
              /\ Len(res.value) * StringsPerElement(ElementKind(last))
                    = CompleteStrings(FrameOf(before).payload)
              /\ ElementsEncode(ElementKind(last), res.value, 1)
                    = FrameOf(before).payload
        /\ ~CompleteElements(ElementKind(last), FrameOf(before).payload) =>
              res.status = "Err"
        /\ (last = "PrincipalsDecode"
              /\ CompleteElements("String", FrameOf(before).payload)) =>
              res.status = "Ok"
        /\ FrameOf(before).payload = <<>> =>
              /\ res.status = "Ok"
              /\ res.value = <<>>

\* two principals, "a" then "bc", were read from a stream that goes on
\* after the list
C15_Witness ==
    /\ last = "PrincipalsDecode"
    /\ before = <<0, 0, 0, 11, 0, 0, 0, 1, 97, 0, 0, 0, 2, 98, 99, 0, 0, 0, 1>>
    /\ res.status = "Ok"
    /\ res.value = << <<97>>, <<98, 99>> >>
    /\ stream = <<0, 0, 0, 1>>

\* a list whose payload ends with a cut element was refused
C15_WitnessResidual ==
    /\ last = "ExtensionsDecode"
    /\ FrameOf(before).ok
    /\ Len(FrameOf(before).rest) > 0
    /\ ~CompleteElements("Extension", FrameOf(before).payload)
    /\ res.status = "Err"


\* the reserved field of the binary body in the text written by encode
ReservedOf(text) ==
    DecodeBody(Base64Decode(ReadTillWhitespace(ReadTillWhitespace(text).rest).token)
                 .value).value.reserved

\* C16: every SshCertificate, whether returned by SshCertificate::decode or
\* by SshCertificateBuilder::build, has valid_after <= valid_before, and
\* every encoding of a certificate writes the reserved field as the empty
\* byte string.
C16_CertificateInvariants ==
    /\ certRes.status = "Ok" =>
          U64LessEq(Unwrap(certRes.cert).valid_after, Unwrap(certRes.cert).valid_before)
    /\ built.status = "Ok" =>
          U64LessEq(Unwrap(built.cert).valid_after, Unwrap(built.cert).valid_before)
    /\ certOut.status = "Ok" => ReservedOf(certOut.bytes) = <<>>

\* the part of C16 on encode: the reserved field is written empty
C16_ReservedWrittenEmpty ==
    certOut.status = "Ok" => ReservedOf(certOut.bytes) = <<>>

\* the part of C16 on build
C16_BuiltWindow ==
    built.status = "Ok" =>
        U64LessEq(Unwrap(built.cert).valid_after, Unwrap(built.cert).valid_before)


\* C18: decoding the uint32 cert_type field gives Client for 1 and Host for
\* 2, and fails with InvalidCertificateType(n) for every other 32-bit value
\* n, 0 included; encoding writes 1 for Client and 2 for Host as a
\* big-endian uint32, so that decode(encode(t)) = t for both variants.
C18_CertTypeValidation ==
    /\ (last = "CertTypeDecode" /\ Len(before) >= 4) =>
          /\ Take(before, 4) = <<0, 0, 0, 1>> =>
                (res.status = "Ok" /\ res.value = "Client")
          /\ Take(before, 4) = <<0, 0, 0, 2>> =>
                (res.status = "Ok" /\ res.value = "Host")
          /\ Take(before, 4) \notin {<<0, 0, 0, 1>>, <<0, 0, 0, 2>>} =>
                /\ res.status = "Err"
                /\ res.err = "InvalidCertificateType"
                /\ res.detail = Take(before, 4)
          /\ res.status = "Ok" => stream = Drop(before, 4)
    /\ last = "CertTypeEncode" =>
          stream = IF origin.arg = "Client" THEN <<0, 0, 0, 1>> ELSE <<0, 0, 0, 2>>
    /\ (last = "CertTypeDecode" /\ origin.op = "CertTypeEncode") =>
          (res.status = "Ok" /\ res.value = origin.arg)

\* the value 0 was refused with InvalidCertificateType(0)
C18_Witness ==
    /\ last = "CertTypeDecode"
    /\ Len(before) >= 4
    /\ Take(before, 4) = <<0, 0, 0, 0>>
    /\ res.status = "Err"
    /\ res.err = "InvalidCertificateType"
    /\ res.detail = <<0, 0, 0, 0>>

\* Host was written and read back
C18_WitnessRoundTrip ==
    /\ last = "CertTypeDecode"
    /\ origin = [op |-> "CertTypeEncode", arg |-> "Host"]
    /\ before = <<0, 0, 0, 2>>
    /\ res.status = "Ok"
    /\ res.value = "Host"


\* the fields of the builder other than f keep their values in the step
OnlyChanges(f) == \A g \in DOMAIN inner \ {f} : inner'[g] = inner[g]

\* every setter writes its own field and no other
SettersKeepOtherFields ==
    /\ SetKeyType => OnlyChanges("key_type")
    /\ SetKey => (OnlyChanges("public_key") /\ inner'.public_key = Some(SubjectKey))
    /\ SetSerial => (OnlyChanges("serial") /\ IsSome(inner'.serial))
    /\ SetCertType => (OnlyChanges("cert_type") /\ IsSome(inner'.cert_type))
    /\ SetKeyId => (OnlyChanges("key_id") /\ IsSome(inner'.key_id))
    /\ SetPrincipals =>
          (OnlyChanges("valid_principals") /\ inner'.valid_principals \in PrincipalLists)
    /\ SetValidBefore => (OnlyChanges("valid_before") /\ IsSome(inner'.valid_before))
    /\ SetValidAfter => (OnlyChanges("valid_after") /\ IsSome(inner'.valid_after))
    /\ SetCriticalOptions =>
          (OnlyChanges("critical_options")
             /\ inner'.critical_options \in CriticalOptionLists)
    /\ SetExtensions =>
          (OnlyChanges("extensions") /\ inner'.extensions \in ExtensionLists)
    /\ SetSignatureKey =>
          (OnlyChanges("signature_key") /\ inner'.signature_key = Some(IssuerKey))
    /\ SetSignature => (OnlyChanges("signature") /\ IsSome(inner'.signature))
    /\ DoBuild => inner' = inner

\* build() on the fields the setters left
BuildOutcome ==
    BuildCalled =>
        /\ built.status = "Ok" <=>
              /\ \A f \in RequiredFields : IsSome(inner[f])
              /\ Secs(Unwrap(inner.valid_after)) <= now
              /\ now < Secs(Unwrap(inner.valid_before))
        /\ built.status = "Ok" =>
              /\ \A f \in RequiredFields : Unwrap(built.cert)[f] = Unwrap(inner[f])
              /\ \A f \in {"key_type", "valid_principals", "critical_options",
                           "extensions"} : Unwrap(built.cert)[f] = inner[f]
              /\ Len(Unwrap(built.cert).nonce) = 32
              /\ Unwrap(built.cert).comment = <<>>

\* C19: from SshCertificateBuilder::init(), after any sequence of setter
\* calls each setter has changed only its own field and the last value set
\* for a field is the one kept; build() then succeeds if and only if
\* public_key, serial, cert_type, key_id, valid_after, valid_before,
\* signature_key and signature have each been set and
\* valid_after <= now < valid_before, and the certificate carries the
\* last-set value of every field, the last-set (or empty) principals,
\* critical options and extensions, a nonce of exactly 32 bytes and an empty
\* comment.
C19_BuilderSetterSequences ==
    /\ []BuildOutcome
    /\ [][SettersKeepOtherFields]_vars

\* a certificate was built with principals set and no extensions
C19_Witness ==
    /\ BuildCalled
    /\ built.status = "Ok"
    /\ Unwrap(built.cert).valid_principals # <<>>
    /\ Unwrap(built.cert).extensions = <<>>
    /\ Unwrap(built.cert).cert_type = "Host"
    /\ Len(Unwrap(built.cert).nonce) = 32

====
